---- MODULE Spec2Model ----
(***************************************************************************)
(* MCP Manager: the multi-source configuration aggregator and the toggle   *)
(* dispatcher of ConfigService (src/src/services/configService.ts).        *)
(*                                                                         *)
(* A JSON object is a function from its keys to values; an optional key    *)
(* is a record [k, m] whose k says whether the key is absent ("abs"),      *)
(* holds an object ("obj", the map m) or holds a number ("num", a JSON     *)
(* value of an unexpected shape).  A file is a record whose st says        *)
(* whether the file is absent, unreadable/unparsable ("corrupt"), parses   *)
(* to an object ("ok") or parses to a number ("scalar").                   *)
(*                                                                         *)
(* The health probes of HealthCheckService                                 *)
(* (src/src/services/healthCheckService.ts) are calls in flight: probes    *)
(* maps each call to its position in checkTier1 / checkTier2, cache is the *)
(* result cache of the service, now the clock in units of TimeUnitMs.      *)
(* McpTreeDataProvider (src/src/providers/mcpTreeDataProvider.ts) holds    *)
(* healthResults, the results on display, and fires change events; batch   *)
(* is its batch of probes in flight.  toggles are toggleServer calls       *)
(* between their read and their write, ranked the last list of server     *)
(* items the provider returned for a scope group.                          *)
(***************************************************************************)
EXTENDS Integers, Sequences, FiniteSets, TLC

VARIABLES fs, workspaceRoot, servers, aggRejected, stale, last, pre, trip,
          cache, probes, now, got, healthResults, events, batch, toggles, ranked

configVars == <<fs, workspaceRoot, servers, aggRejected, stale, last, pre, trip>>
\* what the probes leave alone: the clock, the last cache read, the provider
\* and the toggles in flight
restVars == <<now, got, healthResults, events, batch, toggles, ranked>>
healthVars == <<cache, probes, restVars>>
vars == <<configVars, healthVars>>

\* ---------------------------------------------------------------- bounds
\* toggles issued from one snapshot of the server list before a refresh
MaxStale == 2

\* ----------------------------------------------------------- JSON values
Names == {"a", "b"}
PluginIds == {"p1", "p2"}

EmptyMap == [x \in {} |-> x]
Abs == [k |-> "abs", m |-> EmptyMap]
Num == [k |-> "num", m |-> EmptyMap]
Obj(m) == [k |-> "obj", m |-> m]

AbsList == [k |-> "abs", s |-> <<>>]
NumList == [k |-> "num", s |-> <<>>]
Arr(s) == [k |-> "arr", s |-> s]

\* m without key n (delete m[n])
Without(m, n) == [x \in (DOMAIN m) \ {n} |-> m[x]]
\* m with m[n] = v (m[n] = v on an object)
With(m, n, v) == [x \in (DOMAIN m) \cup {n} |-> IF x = n THEN v ELSE m[x]]

\* Object.entries(v): the own enumerable properties; a number has none
ObjectEntries(v) == IF v.k = "obj" THEN v.m ELSE EmptyMap

\* JS truthiness of an optional value (an object and 5 are truthy)
Truthy(v) == v.k # "abs"

\* ------------------------------------------------------------------ paths
\* a path is the sequence of its characters
Root == <<"/", "w", "/", "p">>
Parent == <<"/", "w">>
OtherProject == <<"/", "o">>
Home == <<"/", "h">>
NoRoot == <<>>
\* a workspace whose path has the path of Root as a prefix of its characters
\* without lying under it, and anchor paths written with a trailing slash
LongRoot == <<"/", "w", "/", "p", "q">>
RootSlash == <<"/", "w", "/", "p", "/">>
ParentSlash == <<"/", "w", "/">>
TopDir == <<"/">>

StartsWith(s, p) == Len(p) <= Len(s) /\ SubSeq(s, 1, Len(p)) = p
EndsWithSlash(s) == Len(s) > 0 /\ s[Len(s)] = "/"

\* ------------------------------------------------------------- file shapes
\* the content readJson yields for a file: defined unless absent or corrupt
Defined(f) == f.st \in {"ok", "scalar"}
\* property access on the value read: a number and undefined have no keys
Prop(f, key) == IF f.st = "ok" THEN f[key] ELSE Abs
PropList(f, key) == IF f.st = "ok" THEN f[key] ELSE AbsList

FileNames == {"mcpJson", "settingsLocal", "claudeJson", "managed",
              "installedPlugins", "claudeSettings", "pluginFiles", "managerSettings"}

EmptyBlock == [mcpServers |-> Abs, disabled_mcpServers |-> Abs, other |-> "none"]

\* the object {} as the content of each file
EmptySettingsLocal == [st |-> "ok", disabledMcpjsonServers |-> AbsList, other |-> "none"]
EmptyClaudeSettings == [st |-> "ok", enabledPlugins |-> Abs, env |-> Abs, other |-> "none"]
EmptyClaudeJson == [st |-> "ok", mcpServers |-> Abs, disabled_mcpServers |-> Abs,
                    projects |-> Abs, other |-> "none"]
EmptyServersFile == [st |-> "ok", mcpServers |-> Abs, other |-> "none"]
EmptyRegistry == [st |-> "ok", plugins |-> Abs]
EmptyPluginFile == [st |-> "ok", mcpServers |-> Abs, flat |-> EmptyMap]
\* ~/.claude/mcp-manager-settings.json: all is the JSON value it parses to
EmptyManagerSettings == [st |-> "ok", all |-> Obj(EmptyMap)]

\* a file that is absent, corrupt or a number, for each file type
NoFile(empty, st) == [empty EXCEPT !.st = st]

\* ---------------------------------------------------------------- entries
McpServerEntry(name, config, scope, enabled, path, pluginId) ==
    [name |-> name, config |-> config, scope |-> scope, enabled |-> enabled,
     configFilePath |-> path, pluginId |-> pluginId]

NoEntry == McpServerEntry("", <<>>, "", FALSE, <<>>, "")

Returned(es) == [threw |-> FALSE, entries |-> es]
Thrown == [threw |-> TRUE, entries |-> {}]

\* ------------------------------------------------------------ path helpers
claudeGlobalPath == Home \o <<"/", "c">>
managedConfigPath == <<"/", "e", "/", "m">>
mcpJsonPath(root) == IF root = NoRoot THEN NoRoot ELSE root \o <<"/", "m">>
settingsLocalPath(root) == IF root = NoRoot THEN NoRoot ELSE root \o <<"/", "s">>
\* installPath with a leading ~ resolved against the home directory
ResolveInstallPath(installPath) ==
    IF Len(installPath) > 0 /\ installPath[1] = "~"
    THEN Home \o Tail(installPath)
    ELSE installPath
pluginMcpConfigPath(installPath) == installPath \o <<"/", "m">>

\* --------------------------------------------------------- reading servers
\* .mcp.json servers, enabled unless named in disabledMcpjsonServers
readProjectServers(f, root) ==
    IF mcpJsonPath(root) = NoRoot THEN Returned({})
    ELSE LET mcpServers == Prop(f.mcpJson, "mcpServers")
             disabledList == PropList(f.settingsLocal, "disabledMcpjsonServers")
         IN IF ~Truthy(mcpServers) THEN Returned({})
            \* new Set(5): a number is not iterable
            ELSE IF disabledList.k = "num" THEN Thrown
            ELSE LET disabledSet == {disabledList.s[i] : i \in DOMAIN disabledList.s}
                     es == ObjectEntries(mcpServers)
                 IN Returned({McpServerEntry(n, es[n], "project", n \notin disabledSet,
                                             mcpJsonPath(root), "") : n \in DOMAIN es})

\* the entries of one block: active map enabled, parked map disabled
BlockServers(mcpServers, disabledServers, scope) ==
    LET act == ObjectEntries(mcpServers)
        dis == ObjectEntries(disabledServers)
    IN {McpServerEntry(n, act[n], scope, TRUE, claudeGlobalPath, "") : n \in DOMAIN act}
       \cup
       {McpServerEntry(n, dis[n], scope, FALSE, claudeGlobalPath, "") : n \in DOMAIN dis}

readUserServers(f) ==
    IF ~Defined(f.claudeJson) THEN Returned({})
    ELSE Returned(BlockServers(Prop(f.claudeJson, "mcpServers"),
                               Prop(f.claudeJson, "disabled_mcpServers"), "user"))

readLocalServers(f, root) ==
    IF root = NoRoot THEN Returned({})
    ELSE LET projects == ObjectEntries(Prop(f.claudeJson, "projects"))
         IN IF root \notin DOMAIN projects THEN Returned({})
            ELSE Returned(BlockServers(projects[root].mcpServers,
                                       projects[root].disabled_mcpServers, "local"))

readManagedServers(f) ==
    LET mcpServers == Prop(f.managed, "mcpServers")
        es == ObjectEntries(mcpServers)
    IN IF ~Truthy(mcpServers) THEN Returned({})
       ELSE Returned({McpServerEntry(n, es[n], "managed", TRUE, managedConfigPath, "")
                        : n \in DOMAIN es})

\* one installation of a plugin in installed_plugins.json; ok = FALSE is an
\* entry without a string installPath (null, a number, {}), on which
\* installation.installPath.startsWith throws
PluginInstallation(scope, projectPath, installPath) ==
    [ok |-> TRUE, scope |-> scope, projectPath |-> projectPath, installPath |-> installPath]
BadInstallation == [ok |-> FALSE, scope |-> "global", projectPath |-> NoRoot, installPath |-> <<>>]

\* Array.isArray(raw) ? raw : [raw]
NormalizeInstallations(raw) == IF raw.arr THEN raw.insts ELSE <<raw.insts[1]>>

PluginFileAt(f, path) ==
    IF path \in DOMAIN f.pluginFiles THEN f.pluginFiles[path]
    ELSE NoFile(EmptyPluginFile, "absent")

\* the project filter: a project installation is kept when the workspace is
\* its projectPath or lies under it
ProjectFilterSkips(inst, root) ==
    /\ inst.scope = "project"
    /\ \/ root = NoRoot
       \/ inst.projectPath = NoRoot
       \/ LET normalizedProject == IF EndsWithSlash(inst.projectPath)
                                   THEN inst.projectPath
                                   ELSE inst.projectPath \o <<"/">>
          IN root # inst.projectPath /\ ~StartsWith(root, normalizedProject)

\* rawMcpConfig.mcpServers ?? rawMcpConfig, as the map of its entries
PluginServersOf(file) ==
    IF file.st # "ok" THEN EmptyMap
    ELSE IF file.mcpServers.k = "abs" THEN file.flat
    ELSE ObjectEntries(file.mcpServers)

\* the scope rule below without the promotion of an ancestor installation
ResolvedScope_NeverPromotes(inst, root) ==
    IF inst.scope = "global" THEN "user" ELSE "local"

ResolvedScope(inst, root) ==
    IF inst.scope = "global" THEN "user"
    ELSE IF inst.projectPath # NoRoot /\ root # NoRoot /\ inst.projectPath # root THEN "user"
    ELSE "local"

PluginEnabled(f, pluginId) ==
    LET enabledMap == ObjectEntries(Prop(f.claudeSettings, "enabledPlugins"))
    IN IF pluginId \in DOMAIN enabledMap THEN enabledMap[pluginId] # FALSE ELSE TRUE

\* the loop below without the check of the dedupe key
RECURSIVE PluginInstallationsLoop_NoDedupe(_, _, _, _, _, _, _)
PluginInstallationsLoop_NoDedupe(f, root, pluginId, insts, i, seen, acc) ==
    IF i > Len(insts) THEN acc
    ELSE LET inst == insts[i]
             mcpConfigPath == pluginMcpConfigPath(ResolveInstallPath(inst.installPath))
             pluginServers == PluginServersOf(PluginFileAt(f, mcpConfigPath))
             skip == PluginInstallationsLoop_NoDedupe(f, root, pluginId, insts, i + 1, seen, acc)
         IN IF ~inst.ok THEN acc
            ELSE IF ProjectFilterSkips(inst, root) THEN skip
            ELSE IF DOMAIN pluginServers = {} THEN skip
            ELSE PluginInstallationsLoop_NoDedupe(f, root, pluginId, insts, i + 1, seen,
                    acc \cup {McpServerEntry(n, pluginServers[n], ResolvedScope(inst, root),
                                             PluginEnabled(f, pluginId),
                                             mcpConfigPath, pluginId)
                                : n \in DOMAIN pluginServers})

\* the inner loop over the installations of one plugin, from index i on;
\* seen holds the scopes already emitted for this plugin, acc the entries
RECURSIVE PluginInstallationsLoop(_, _, _, _, _, _, _)
PluginInstallationsLoop(f, root, pluginId, insts, i, seen, acc) ==
    IF i > Len(insts) THEN acc
    ELSE LET inst == insts[i]
             installPath == ResolveInstallPath(inst.installPath)
             mcpConfigPath == pluginMcpConfigPath(installPath)
             rawMcpConfig == PluginFileAt(f, mcpConfigPath)
             pluginServers == PluginServersOf(rawMcpConfig)
             scope == ResolvedScope(inst, root)
             skip == PluginInstallationsLoop(f, root, pluginId, insts, i + 1, seen, acc)
         IN \* a throw leaves the loop of this plugin (catch: continue)
            IF ~inst.ok THEN acc
            ELSE IF ProjectFilterSkips(inst, root) THEN skip
            ELSE IF ~Defined(rawMcpConfig) THEN skip
            ELSE IF DOMAIN pluginServers = {} THEN skip
            ELSE IF scope \in seen THEN skip
            ELSE PluginInstallationsLoop(f, root, pluginId, insts, i + 1, seen \cup {scope},
                    acc \cup {McpServerEntry(n, pluginServers[n], scope,
                                             PluginEnabled(f, pluginId),
                                             mcpConfigPath, pluginId)
                                : n \in DOMAIN pluginServers})

readPluginServers(f, root) ==
    LET plugins == Prop(f.installedPlugins, "plugins")
        reg == ObjectEntries(plugins)
    IN IF ~Truthy(plugins) THEN Returned({})
       ELSE Returned(UNION {PluginInstallationsLoop(f, root, pid,
                                NormalizeInstallations(reg[pid]), 1, {}, {})
                              : pid \in DOMAIN reg})

\* Promise.all over the five readers: rejects when one of them rejects
getAllServers(f, root) ==
    LET projectServers == readProjectServers(f, root)
        userServers == readUserServers(f)
        localServers == readLocalServers(f, root)
        managedServers == readManagedServers(f)
        pluginServers == readPluginServers(f, root)
    IN IF \/ projectServers.threw \/ userServers.threw \/ localServers.threw
          \/ managedServers.threw \/ pluginServers.threw
       THEN Thrown
       ELSE Returned(projectServers.entries \cup userServers.entries
                     \cup localServers.entries \cup managedServers.entries
                     \cup pluginServers.entries)

\* ------------------------------------------------------------ toggle logic
\* the result of one toggleServer call: the files after it, whether the
\* promise resolved ("ok") or rejected ("threw"), the files it wrote and
\* the strategy it dispatched to
Toggled(f, outcome, wrote, strategy) ==
    [fs |-> f, outcome |-> outcome, wrote |-> wrote, strategy |-> strategy]

\* writeJson catching the failure of mkdir or writeFile
writeJson_SwallowsFailure(f, file, data, writeOk, strategy) ==
    IF writeOk THEN Toggled([f EXCEPT ![file] = data], "ok", {file}, strategy)
    ELSE Toggled(f, "ok", {}, strategy)

\* writeJson: mkdir and writeFile; a failure of either rejects
writeJson(f, file, data, writeOk, strategy) ==
    IF writeOk THEN Toggled([f EXCEPT ![file] = data], "ok", {file}, strategy)
    ELSE Toggled(f, "threw", {}, strategy)

\* readJson(path) ?? {}
ReadOrEmpty(file, empty) == IF Defined(file) THEN file ELSE empty

\* disabled.indexOf(name), 0 when absent
RECURSIVE IndexOfFrom(_, _, _)
IndexOfFrom(s, name, i) ==
    IF i > Len(s) THEN 0
    ELSE IF s[i] = name THEN i
    ELSE IndexOfFrom(s, name, i + 1)
IndexOf(s, name) == IndexOfFrom(s, name, 1)

\* disabled.splice(idx, 1)
Splice1(s, idx) == SubSeq(s, 1, idx - 1) \o SubSeq(s, idx + 1, Len(s))

\* toggleProjectServer pushing the name without the includes test
toggleProjectServer_AlwaysPush(f, root, entry, writeOk, strictMode) ==
    IF settingsLocalPath(root) = NoRoot THEN Toggled(f, "ok", {}, "B")
    ELSE LET settings == ReadOrEmpty(f.settingsLocal, EmptySettingsLocal)
             list == PropList(settings, "disabledMcpjsonServers").s
             idx == IndexOf(list, entry.name)
             newList == IF entry.enabled THEN Append(list, entry.name)
                        ELSE (IF idx # 0 THEN Splice1(list, idx) ELSE list)
         IN writeJson(f, "settingsLocal",
                      [settings EXCEPT !.disabledMcpjsonServers = Arr(newList)], writeOk, "B")

\* toggleProjectServer disabling by deleting the server from .mcp.json
toggleProjectServer_EditsSharedFile(f, root, entry, writeOk, strictMode) ==
    IF settingsLocalPath(root) = NoRoot THEN Toggled(f, "ok", {}, "B")
    ELSE LET mcpJson == ReadOrEmpty(f.mcpJson, EmptyServersFile)
             mcpServers == ObjectEntries(Prop(mcpJson, "mcpServers"))
         IN writeJson(f, "mcpJson",
                      [mcpJson EXCEPT !.mcpServers = Obj(Without(mcpServers, entry.name))],
                      writeOk, "B")

\* Strategy B: the disabledMcpjsonServers list of .claude/settings.local.json
toggleProjectServer(f, root, entry, writeOk, strictMode) ==
    IF settingsLocalPath(root) = NoRoot THEN Toggled(f, "ok", {}, "B")
    ELSE LET settings == ReadOrEmpty(f.settingsLocal, EmptySettingsLocal)
             disabled == PropList(settings, "disabledMcpjsonServers")
             list == disabled.s
             idx == IndexOf(list, entry.name)
             newList == IF entry.enabled
                        THEN (IF idx = 0 THEN Append(list, entry.name) ELSE list)
                        ELSE (IF idx # 0 THEN Splice1(list, idx) ELSE list)
         IN \* (5).includes is not a function
            IF disabled.k = "num" THEN Toggled(f, "threw", {}, "B")
            \* the file holds a number: assigning a property to it throws in
            \* strict mode and is ignored otherwise
            ELSE IF settings.st = "scalar"
                 THEN (IF strictMode THEN Toggled(f, "threw", {}, "B")
                       ELSE writeJson(f, "settingsLocal", settings, writeOk, "B"))
            ELSE writeJson(f, "settingsLocal",
                           [settings EXCEPT !.disabledMcpjsonServers = Arr(newList)],
                           writeOk, "B")

\* togglePlugin building a new enabledPlugins map instead of updating it
togglePlugin_FreshMap(f, entry, writeOk) ==
    LET settings == ReadOrEmpty(f.claudeSettings, EmptyClaudeSettings)
    IN IF settings.st = "scalar" THEN Toggled(f, "threw", {}, "C")
       ELSE writeJson(f, "claudeSettings",
                      [settings EXCEPT !.enabledPlugins =
                          Obj(With(EmptyMap, entry.pluginId, ~entry.enabled))],
                      writeOk, "C")

\* togglePlugin writing ~/.claude.json back as well, as it read it
togglePlugin_RewritesClaudeJson(f, entry, writeOk) ==
    LET settings == ReadOrEmpty(f.claudeSettings, EmptyClaudeSettings)
        enabledPlugins == ObjectEntries(Prop(settings, "enabledPlugins"))
    IN IF settings.st = "scalar" THEN Toggled(f, "threw", {}, "C")
       ELSE IF ~writeOk THEN Toggled(f, "threw", {}, "C")
       ELSE Toggled([f EXCEPT !.claudeSettings =
                        [settings EXCEPT !.enabledPlugins =
                            Obj(With(enabledPlugins, entry.pluginId, ~entry.enabled))]],
                    "ok", {"claudeSettings", "claudeJson"}, "C")

\* Strategy C: enabledPlugins[pluginId] of ~/.claude/settings.json
togglePlugin(f, entry, writeOk) ==
    LET settings == ReadOrEmpty(f.claudeSettings, EmptyClaudeSettings)
        enabledPlugins == ObjectEntries(Prop(settings, "enabledPlugins"))
    IN \* the file holds a number: settings.enabledPlugins stays undefined
       IF settings.st = "scalar" THEN Toggled(f, "threw", {}, "C")
       ELSE writeJson(f, "claudeSettings",
                      [settings EXCEPT !.enabledPlugins =
                          Obj(With(enabledPlugins, entry.pluginId, ~entry.enabled))],
                      writeOk, "C")

\* moveServerKey leaving an emptied _disabled_mcpServers object in place
moveServerKey_KeepsEmptyParked(block, entry) ==
    LET act == ObjectEntries(block.mcpServers)
        dis == ObjectEntries(block.disabled_mcpServers)
    IN IF entry.enabled
       THEN IF entry.name \in DOMAIN act
            THEN [block EXCEPT !.disabled_mcpServers = Obj(With(dis, entry.name, act[entry.name])),
                               !.mcpServers = Obj(Without(act, entry.name))]
            ELSE block
       ELSE IF entry.name \in DOMAIN dis
            THEN [block EXCEPT !.mcpServers = Obj(With(act, entry.name, dis[entry.name])),
                               !.disabled_mcpServers = Obj(Without(dis, entry.name))]
            ELSE block

\* move entry.name between mcpServers and _disabled_mcpServers of a block
moveServerKey(block, entry) ==
    LET act == ObjectEntries(block.mcpServers)
        dis == ObjectEntries(block.disabled_mcpServers)
    IN IF entry.enabled
       THEN IF entry.name \in DOMAIN act
            THEN [block EXCEPT !.disabled_mcpServers = Obj(With(dis, entry.name, act[entry.name])),
                               !.mcpServers = Obj(Without(act, entry.name))]
            ELSE block
       ELSE IF entry.name \in DOMAIN dis
            THEN [block EXCEPT !.mcpServers = Obj(With(act, entry.name, dis[entry.name])),
                               !.disabled_mcpServers =
                                   IF DOMAIN Without(dis, entry.name) = {}
                                   THEN Abs
                                   ELSE Obj(Without(dis, entry.name))]
            ELSE block

\* the top-level active/parked pair of ~/.claude.json as a block
TopBlock(doc) == [mcpServers |-> doc.mcpServers,
                  disabled_mcpServers |-> doc.disabled_mcpServers, other |-> doc.other]

\* toggleClaudeJsonServer writing back only the block of the current project
toggleClaudeJsonServer_DropsOtherProjects(f, root, entry, writeOk) ==
    LET globalConfig == ReadOrEmpty(f.claudeJson, EmptyClaudeJson)
        projects == ObjectEntries(Prop(globalConfig, "projects"))
        block == IF root \in DOMAIN projects THEN projects[root] ELSE EmptyBlock
        moved == moveServerKey(TopBlock(globalConfig), entry)
    IN IF entry.scope = "user"
       THEN writeJson(f, "claudeJson",
                      [globalConfig EXCEPT !.mcpServers = moved.mcpServers,
                                           !.disabled_mcpServers = moved.disabled_mcpServers],
                      writeOk, "A")
       ELSE writeJson(f, "claudeJson",
                      [globalConfig EXCEPT !.projects =
                          Obj(With(EmptyMap, root, moveServerKey(block, entry)))],
                      writeOk, "A")

\* Strategy A: the key move in ~/.claude.json
toggleClaudeJsonServer(f, root, entry, writeOk) ==
    LET globalConfig == ReadOrEmpty(f.claudeJson, EmptyClaudeJson)
    IN IF entry.scope = "user"
       THEN IF globalConfig.st = "scalar"
            \* a number has no mcpServers: nothing moves, the number is written back
            THEN writeJson(f, "claudeJson", globalConfig, writeOk, "A")
            ELSE LET moved == moveServerKey(TopBlock(globalConfig), entry)
                 IN writeJson(f, "claudeJson",
                              [globalConfig EXCEPT !.mcpServers = moved.mcpServers,
                                                   !.disabled_mcpServers = moved.disabled_mcpServers],
                              writeOk, "A")
       ELSE IF entry.scope = "local"
       THEN IF root = NoRoot THEN Toggled(f, "ok", {}, "A")
            \* a number has no projects: globalConfig.projects[root] throws
            ELSE IF globalConfig.st = "scalar" THEN Toggled(f, "threw", {}, "A")
            ELSE LET projects == ObjectEntries(globalConfig.projects)
                     block == IF root \in DOMAIN projects THEN projects[root] ELSE EmptyBlock
                 IN writeJson(f, "claudeJson",
                              [globalConfig EXCEPT !.projects =
                                  Obj(With(projects, root, moveServerKey(block, entry)))],
                              writeOk, "A")
       ELSE writeJson(f, "claudeJson", globalConfig, writeOk, "A")

\* toggleServer without the guard on Managed entries
toggleServer_NoManagedGuard(f, root, entry, writeOk, strictMode) ==
    IF entry.pluginId # "" THEN togglePlugin(f, entry, writeOk)
    ELSE IF entry.scope = "project" THEN toggleProjectServer(f, root, entry, writeOk, strictMode)
    ELSE toggleClaudeJsonServer(f, root, entry, writeOk)

\* toggleServer dispatching on the scope alone
toggleServer_ScopeOnly(f, root, entry, writeOk, strictMode) ==
    IF entry.scope = "managed" THEN Toggled(f, "ok", {}, "reject")
    ELSE IF entry.scope = "project" THEN toggleProjectServer(f, root, entry, writeOk, strictMode)
    ELSE toggleClaudeJsonServer(f, root, entry, writeOk)

\* toggleServer: the dispatch, first match wins
toggleServer(f, root, entry, writeOk, strictMode) ==
    IF entry.scope = "managed" THEN Toggled(f, "ok", {}, "reject")
    ELSE IF entry.pluginId # "" THEN togglePlugin(f, entry, writeOk)
    ELSE IF entry.scope = "project" THEN toggleProjectServer(f, root, entry, writeOk, strictMode)
    ELSE toggleClaudeJsonServer(f, root, entry, writeOk)

\* ----------------------------------------------------------- initial files
\* a server config object, told apart by the place it was written at
Cfg(tag, n) == <<tag, n>>
MapOf(S, tag) == [n \in S |-> Cfg(tag, n)]
\* an optional map of servers: absent, or an object over any set of names
OptMaps(tag) == {Abs} \cup {Obj(MapOf(S, tag)) : S \in SUBSET Names}

Block(act, dis) == [mcpServers |-> act, disabled_mcpServers |-> dis, other |-> "x"]
OtherBlock == Block(Obj(MapOf({"a"}, "oa")), Obj(MapOf({"b"}, "od")))

ServersFile(mcpServers) == [st |-> "ok", mcpServers |-> mcpServers, other |-> "x"]
ClaudeJson(act, dis, projects) ==
    [st |-> "ok", mcpServers |-> act, disabled_mcpServers |-> dis,
     projects |-> projects, other |-> "x"]
SettingsLocal(list) == [st |-> "ok", disabledMcpjsonServers |-> list, other |-> "x"]
ClaudeSettings(enabledPlugins) ==
    [st |-> "ok", enabledPlugins |-> enabledPlugins, env |-> Abs, other |-> "x"]
Registry(plugins) == [st |-> "ok", plugins |-> plugins]
PluginFile(mcpServers, flat) == [st |-> "ok", mcpServers |-> mcpServers, flat |-> flat]

BadStates == {"absent", "corrupt", "scalar"}

\* install paths and the plugin config files found under them
InstallGlobal == <<"/", "g">>
InstallTilde == <<"~", "/", "t">>
InstallLocal == <<"/", "l">>
InstallFlat == <<"/", "f">>
InstallEmpty == <<"/", "n">>
InstallCorrupt == <<"/", "x">>
InstallMissing == <<"/", "z">>
InstallScalar == <<"/", "5">>
InstallNumServers == <<"/", "6">>

InitPluginFiles ==
    (pluginMcpConfigPath(InstallGlobal) :> PluginFile(Obj(MapOf({"a", "b"}, "pg")), EmptyMap))
    @@ (pluginMcpConfigPath(ResolveInstallPath(InstallTilde)) :>
            PluginFile(Obj(MapOf({"a"}, "pt")), EmptyMap))
    @@ (pluginMcpConfigPath(InstallLocal) :> PluginFile(Obj(MapOf({"b"}, "pl")), EmptyMap))
    @@ (pluginMcpConfigPath(InstallFlat) :> PluginFile(Abs, MapOf({"a"}, "pf")))
    @@ (pluginMcpConfigPath(InstallEmpty) :> PluginFile(Obj(EmptyMap), MapOf({"a"}, "pn")))
    @@ (pluginMcpConfigPath(InstallCorrupt) :> NoFile(EmptyPluginFile, "corrupt"))
    @@ (pluginMcpConfigPath(InstallScalar) :> NoFile(EmptyPluginFile, "scalar"))
    @@ (pluginMcpConfigPath(InstallNumServers) :> PluginFile(Num, MapOf({"a"}, "p6")))

\* every file absent, no plugin installed
NoFiles ==
    [mcpJson |-> NoFile(EmptyServersFile, "absent"),
     settingsLocal |-> NoFile(EmptySettingsLocal, "absent"),
     claudeJson |-> NoFile(EmptyClaudeJson, "absent"),
     managed |-> NoFile(EmptyServersFile, "absent"),
     installedPlugins |-> NoFile(EmptyRegistry, "absent"),
     claudeSettings |-> NoFile(EmptyClaudeSettings, "absent"),
     pluginFiles |-> InitPluginFiles,
     managerSettings |-> NoFile(EmptyManagerSettings, "absent")]

\* the contents ~/.claude.json may start with
InitClaudeJson ==
    {NoFile(EmptyClaudeJson, st) : st \in BadStates}
    \cup {ClaudeJson(act, dis, projects) :
            act \in OptMaps("ua"), dis \in OptMaps("ud"),
            projects \in {Abs, Obj(Root :> Block(Obj(MapOf({"a"}, "la")), Abs)
                                   @@ OtherProject :> OtherBlock)}}
    \cup {ClaudeJson(Obj(MapOf({"a"}, "ua")), Abs,
                     Obj(Root :> Block(act, dis) @@ OtherProject :> OtherBlock)) :
            act \in OptMaps("la"), dis \in OptMaps("ld")}
    \cup {ClaudeJson(Obj(MapOf({"a"}, "ua")), Abs, projects) :
            projects \in {Obj(EmptyMap), Obj(OtherProject :> OtherBlock)}}

\* the contents .mcp.json and the managed file may start with
InitServersFile(tag) ==
    {NoFile(EmptyServersFile, st) : st \in BadStates}
    \cup {ServersFile(m) : m \in OptMaps(tag) \cup {Num}}

\* the disabled lists: every list of at most two names, duplicates included
InitLists == {<<>>} \cup {<<n>> : n \in Names} \cup {<<n, m>> : n \in Names, m \in Names}
InitSettingsLocal ==
    {NoFile(EmptySettingsLocal, st) : st \in BadStates}
    \cup {SettingsLocal(l) : l \in {AbsList, NumList} \cup {Arr(s) : s \in InitLists}}

BoolMaps == UNION {[S -> BOOLEAN] : S \in SUBSET PluginIds}
InitClaudeSettings ==
    {NoFile(EmptyClaudeSettings, st) : st \in BadStates}
    \cup {ClaudeSettings(e) : e \in {Abs} \cup {Obj(m) : m \in BoolMaps}}

\* the installations a registry may list
InitInstallations ==
    {PluginInstallation("global", NoRoot, InstallGlobal),
     PluginInstallation("global", NoRoot, InstallTilde),
     PluginInstallation("project", Root, InstallLocal),
     PluginInstallation("project", Parent, InstallFlat),
     PluginInstallation("project", OtherProject, InstallGlobal),
     PluginInstallation("global", NoRoot, InstallEmpty),
     PluginInstallation("global", NoRoot, InstallCorrupt),
     PluginInstallation("global", NoRoot, InstallMissing),
     PluginInstallation("global", NoRoot, InstallScalar),
     PluginInstallation("global", NoRoot, InstallNumServers),
     BadInstallation}
Single(inst) == [arr |-> FALSE, insts |-> <<inst>>]
Many(insts) == [arr |-> TRUE, insts |-> insts]
InitRaw ==
    {Single(i) : i \in InitInstallations}
    \cup {Many(<<>>)}
    \cup {Many(<<i, j>>) : i \in InitInstallations, j \in InitInstallations}
\* project installations anchored at the workspace, above it, beside it, and
\* at those places written with a trailing slash
InitAnchors == {Root, RootSlash, Parent, ParentSlash, TopDir, LongRoot, OtherProject}
InitAnchored == {Single(PluginInstallation("project", pp, InstallLocal)) : pp \in InitAnchors}

\* a plugin installed three times at the same scope, the first installation
\* without servers
InitTriples ==
    {Many(<<PluginInstallation("global", NoRoot, first),
            PluginInstallation("global", NoRoot, InstallTilde),
            PluginInstallation("global", NoRoot, InstallGlobal)>>) :
        first \in {InstallEmpty, InstallCorrupt, InstallMissing, InstallScalar}}
InitRegistry ==
    {NoFile(EmptyRegistry, st) : st \in BadStates}
    \cup {Registry(Num), Registry(Obj(EmptyMap))}
    \cup {Registry(Obj("p1" :> raw)) : raw \in InitRaw \cup InitTriples \cup InitAnchored}
    \cup {Registry(Obj("p1" :> raw
                       @@ "p2" :> Many(<<PluginInstallation("global", NoRoot, InstallGlobal),
                                         PluginInstallation("project", Root, InstallLocal)>>))) :
            raw \in {Single(i) : i \in InitInstallations}}

\* a workspace in which every source contributes
MixedFiles ==
    [NoFiles EXCEPT
        !.mcpJson = ServersFile(Obj(MapOf({"a"}, "pr"))),
        !.settingsLocal = SettingsLocal(Arr(<<"a">>)),
        !.claudeJson = ClaudeJson(Obj(MapOf({"a"}, "ua")), Abs,
                                  Obj(Root :> Block(Abs, Obj(MapOf({"a"}, "ld")))
                                      @@ OtherProject :> OtherBlock)),
        !.managed = ServersFile(Obj(MapOf({"a"}, "mg"))),
        !.installedPlugins =
            Registry(Obj("p1" :> Many(<<PluginInstallation("global", NoRoot, InstallTilde),
                                        PluginInstallation("project", Root, InstallLocal)>>))),
        !.claudeSettings = ClaudeSettings(Obj("p2" :> FALSE))]

\* the well-formed initial file systems: one source varies over all its
\* contents while the other sources hold nothing, and the mixed workspace
WellFormed(file) == file.st # "scalar"
InitFilesUser ==
    {[NoFiles EXCEPT !.claudeJson = c] : c \in {x \in InitClaudeJson : WellFormed(x)}}
InitFilesProject ==
    {[NoFiles EXCEPT !.mcpJson = m, !.settingsLocal = l] :
        m \in {x \in InitServersFile("pr") : WellFormed(x) /\ x.mcpServers.k # "num"},
        l \in {x \in InitSettingsLocal :
                 WellFormed(x) /\ x.disabledMcpjsonServers.k # "num"}}
InitFilesManaged ==
    {[base EXCEPT !.managed = m] :
        base \in {NoFiles, MixedFiles},
        m \in {x \in InitServersFile("mg") : WellFormed(x) /\ x.mcpServers.k # "num"}}
InitFilesPlugins ==
    {[NoFiles EXCEPT !.installedPlugins = r, !.claudeSettings = c] :
        r \in {x \in InitRegistry : WellFormed(x) /\ x.plugins.k # "num"},
        c \in {NoFile(EmptyClaudeSettings, "absent"), ClaudeSettings(Obj("p1" :> FALSE))}}
    \cup
    {[MixedFiles EXCEPT !.claudeSettings = c] :
        c \in {x \in InitClaudeSettings : WellFormed(x)}}
InitFiles == InitFilesUser \cup InitFilesProject \cup InitFilesManaged \cup InitFilesPlugins
\* the file systems opened from the workspace LongRoot
InitFilesLongRoot ==
    {[NoFiles EXCEPT !.installedPlugins = Registry(Obj("p1" :> raw))] : raw \in InitAnchored}

\* a small workspace in which the project, user and managed sources
\* contribute and one plugin is installed
SmallFiles ==
    [NoFiles EXCEPT
        !.mcpJson = ServersFile(Obj(MapOf({"a"}, "pr"))),
        !.claudeJson = ClaudeJson(Obj(MapOf({"a"}, "ua")), Abs, Abs),
        !.managed = ServersFile(Obj(MapOf({"a"}, "mg"))),
        !.installedPlugins =
            Registry(Obj("p1" :> Single(PluginInstallation("global", NoRoot, InstallTilde))))]

\* the initial file systems with a source in any state: absent, unreadable
\* or unparsable, a JSON number, or an object with a number where a map or
\* a list is expected
InitFilesShapes ==
    {[SmallFiles EXCEPT !.mcpJson = m, !.settingsLocal = l] :
        m \in InitServersFile("pr"), l \in InitSettingsLocal}
    \cup {[SmallFiles EXCEPT !.claudeJson = c] :
            c \in {NoFile(EmptyClaudeJson, st) : st \in BadStates}}
    \cup {[SmallFiles EXCEPT !.managed = m] : m \in InitServersFile("mg")}
    \cup {[SmallFiles EXCEPT !.installedPlugins = r, !.claudeSettings = c] :
            r \in {x \in InitRegistry : x.st # "ok" \/ x.plugins.k # "obj"}
                  \cup {Registry(Obj("p1" :> Single(i))) : i \in InitInstallations},
            c \in {NoFile(EmptyClaudeSettings, st) : st \in BadStates}}

\* ------------------------------------------------------------ state machine
LastOp(op, entry, result, fresh) ==
    [op |-> op, entry |-> entry, outcome |-> result.outcome, wrote |-> result.wrote,
     strategy |-> result.strategy, fresh |-> fresh]

\* the progress of a disable / refresh / re-enable round trip of one
\* Strategy A entry: phase 1 after the disable, 2 after the refresh, 3 after
\* the re-enable; origin is ~/.claude.json as it was before the disable
NoTrip == [phase |-> 0, entry |-> NoEntry, origin |-> NoFile(EmptyClaudeJson, "absent")]

\* no batch of probes running
NoBatch == [kind |-> "none", state |-> "idle", recorded |-> <<>>]

\* the clock at its origin, no cache read made, nothing displayed, no batch
\* and no toggle in flight
Quiet ==
    /\ now = 0
    /\ got = <<>>
    /\ healthResults = EmptyMap
    /\ events = 0
    /\ batch = NoBatch
    /\ toggles = EmptyMap
    /\ ranked = <<>>

Init ==
    /\ Quiet
    /\ \/ fs \in InitFiles /\ workspaceRoot = Root
       \/ fs = MixedFiles /\ workspaceRoot = NoRoot
       \/ fs \in InitFilesLongRoot /\ workspaceRoot = LongRoot
    /\ servers = {}
    /\ aggRejected = FALSE
    /\ stale = 0
    /\ last = LastOp("init", NoEntry, Toggled(fs, "ok", {}, "none"), FALSE)
    /\ pre = fs
    /\ trip = NoTrip
    /\ cache = EmptyMap
    /\ probes = EmptyMap

\* McpTreeDataProvider.refresh: the server list is replaced by a new
\* aggregation pass, unless the pass rejects
Refresh ==
    LET result == getAllServers(fs, workspaceRoot)
    IN /\ servers' = IF result.threw THEN servers ELSE result.entries
       /\ aggRejected' = result.threw
       /\ stale' = IF result.threw THEN stale ELSE 0
       /\ last' = LastOp("getAllServers", NoEntry,
                         Toggled(fs, IF result.threw THEN "threw" ELSE "ok", {}, "none"), FALSE)
       /\ pre' = fs
       /\ trip' = IF trip.phase = 1 /\ ~result.threw THEN [trip EXCEPT !.phase = 2] ELSE NoTrip
       /\ UNCHANGED <<fs, workspaceRoot>>
       /\ UNCHANGED healthVars

\* ConfigService.toggleServer on an entry of the displayed server list
ToggleServer(entry, writeOk, strictMode) ==
    LET result == toggleServer(fs, workspaceRoot, entry, writeOk, strictMode)
        fresh == stale = 0 /\ ~aggRejected
        done == result.strategy = "A" /\ result.outcome = "ok" /\ fresh
    IN /\ stale < MaxStale
       /\ fs' = result.fs
       /\ stale' = stale + 1
       /\ last' = LastOp("toggleServer", entry, result, fresh)
       /\ pre' = fs
       /\ trip' = IF done /\ entry.enabled
                  THEN [phase |-> 1, entry |-> entry, origin |-> fs.claudeJson]
                  ELSE IF /\ done /\ ~entry.enabled /\ trip.phase = 2
                          /\ entry.name = trip.entry.name /\ entry.scope = trip.entry.scope
                  THEN [trip EXCEPT !.phase = 3]
                  ELSE NoTrip
       /\ UNCHANGED <<workspaceRoot, servers, aggRejected>>
       /\ UNCHANGED healthVars

Next ==
    \/ Refresh
    \/ \E entry \in servers, writeOk \in BOOLEAN, strictMode \in BOOLEAN :
          ToggleServer(entry, writeOk, strictMode)

Spec == Init /\ [][Next]_vars

\* the same program started on files of any shape
InitShapes ==
    /\ Quiet
    /\ fs \in InitFilesShapes
    /\ workspaceRoot = Root
    /\ servers = {}
    /\ aggRejected = FALSE
    /\ stale = 0
    /\ last = LastOp("init", NoEntry, Toggled(fs, "ok", {}, "none"), FALSE)
    /\ pre = fs
    /\ trip = NoTrip
    /\ cache = EmptyMap
    /\ probes = EmptyMap

SpecShapes == InitShapes /\ [][Next]_vars

\* the view lists the servers of the mixed workspace, and one of the files
\* the toggles write has since become unreadable or unparsable (locked, or
\* saved half-edited) with its content on disk
Damaged(f, file) == [f EXCEPT ![file].st = "corrupt"]
InitDamaged ==
    /\ Quiet
    /\ fs \in {MixedFiles} \cup {Damaged(MixedFiles, file) :
                                    file \in {"settingsLocal", "claudeSettings", "claudeJson"}}
    /\ workspaceRoot = Root
    /\ servers = getAllServers(MixedFiles, workspaceRoot).entries
    /\ aggRejected = FALSE
    /\ stale = 0
    /\ last = LastOp("init", NoEntry, Toggled(fs, "ok", {}, "none"), FALSE)
    /\ pre = fs
    /\ trip = NoTrip
    /\ cache = EmptyMap
    /\ probes = EmptyMap

SpecDamaged == InitDamaged /\ [][Next]_vars

\* ------------------------------------------------------- settings services
\* the JSON value null
NullDoc == [k |-> "null", m |-> EmptyMap]

\* SettingsService.readAll: JSON.parse of the file, {} when the read or the
\* parse throws
readAll(file) == IF file.st = "ok" THEN file.all ELSE Obj(EmptyMap)

\* SettingsService.writeAll: mkdir and writeFile; a failure of either rejects
writeAll(f, data, writeOk) ==
    IF writeOk
    THEN Toggled([f EXCEPT !.managerSettings = [st |-> "ok", all |-> data]], "ok",
                 {"managerSettings"}, "none")
    ELSE Toggled(f, "threw", {}, "none")

\* SettingsService.set: all[key] = value on what readAll returned
SettingsService_set(f, key, value, writeOk, strictMode) ==
    LET all == readAll(f.managerSettings)
    IN \* null[key] = value throws
       IF all.k = "null" THEN Toggled(f, "threw", {}, "none")
       \* on a number the assignment throws in strict mode and is ignored
       \* otherwise
       ELSE IF all.k = "num"
       THEN (IF strictMode THEN Toggled(f, "threw", {}, "none") ELSE writeAll(f, all, writeOk))
       ELSE writeAll(f, Obj(With(all.m, key, value)), writeOk)

CLAUDE_CODE_SETTINGS_DEFAULTS == [toolSearchMode |-> "auto"]
\* CLAUDE_CODE_SETTING_DEFINITIONS: the env var of each key
EnvVarOf == [toolSearchMode |-> "ENABLE_TOOL_SEARCH"]

\* ClaudeCodeSettingsService.readFile: JSON.parse of the file, {} when the
\* read or the parse throws
readFile(file) == IF file.st \in {"absent", "corrupt"} THEN EmptyClaudeSettings ELSE file

\* ClaudeCodeSettingsService.writeFile
writeFile(f, data, writeOk) ==
    IF writeOk THEN Toggled([f EXCEPT !.claudeSettings = data], "ok", {"claudeSettings"}, "none")
    ELSE Toggled(f, "threw", {}, "none")

\* ClaudeCodeSettingsService.set starting from an empty env object
ClaudeCodeSettingsService_set_FreshEnv(f, key, value, writeOk, strictMode) ==
    IF key \notin DOMAIN EnvVarOf \/ f.claudeSettings.st \in {"null", "scalar"}
    THEN Toggled(f, "ok", {}, "none")
    ELSE writeFile(f, [readFile(f.claudeSettings) EXCEPT
                          !.env = IF value = CLAUDE_CODE_SETTINGS_DEFAULTS[key] THEN Abs
                                  ELSE Obj(With(EmptyMap, EnvVarOf[key], value))], writeOk)

\* ClaudeCodeSettingsService.set
ClaudeCodeSettingsService_set(f, key, value, writeOk, strictMode) ==
    LET file == readFile(f.claudeSettings)
        isDefault == value = CLAUDE_CODE_SETTINGS_DEFAULTS[key]
        envVar == EnvVarOf[key]
        old == ObjectEntries(file.env)
        env == IF isDefault THEN Without(old, envVar) ELSE With(old, envVar, value)
    IN \* if (!def) return
       IF key \notin DOMAIN EnvVarOf THEN Toggled(f, "ok", {}, "none")
       \* null.env throws
       ELSE IF file.st = "null" THEN Toggled(f, "threw", {}, "none")
       \* the file holds a number: env is {}, and file.env = env throws in
       \* strict mode and is ignored otherwise; delete file.env does nothing
       ELSE IF file.st = "scalar"
       THEN (IF ~isDefault /\ strictMode THEN Toggled(f, "threw", {}, "none")
             ELSE writeFile(f, file, writeOk))
       \* env holds a number: the assignment to it throws in strict mode and
       \* is ignored otherwise; Object.keys(5) is empty and env is deleted
       ELSE IF file.env.k = "num"
       THEN (IF ~isDefault /\ strictMode THEN Toggled(f, "threw", {}, "none")
             ELSE writeFile(f, [file EXCEPT !.env = Abs], writeOk))
       ELSE writeFile(f, [file EXCEPT !.env = IF DOMAIN env = {} THEN Abs ELSE Obj(env)],
                      writeOk)

\* the last operation was a set of one of the two services
LastSet(service, key, value, result) ==
    [op |-> service, entry |-> NoEntry, outcome |-> result.outcome, wrote |-> result.wrote,
     strategy |-> result.strategy, fresh |-> FALSE, key |-> key, value |-> value]

\* the Settings group of the view writes a setting
SettingsServiceSet(key, value, writeOk, strictMode) ==
    LET result == SettingsService_set(fs, key, value, writeOk, strictMode)
    IN /\ fs' = result.fs
       /\ last' = LastSet("SettingsService.set", key, value, result)
       /\ pre' = fs
       /\ UNCHANGED <<workspaceRoot, servers, aggRejected, stale, trip>>
       /\ UNCHANGED healthVars

ClaudeCodeSettingsServiceSet(key, value, writeOk, strictMode) ==
    LET result == ClaudeCodeSettingsService_set(fs, key, value, writeOk, strictMode)
    IN /\ fs' = result.fs
       /\ last' = LastSet("ClaudeCodeSettingsService.set", key, value, result)
       /\ pre' = fs
       /\ UNCHANGED <<workspaceRoot, servers, aggRejected, stale, trip>>
       /\ UNCHANGED healthVars

\* the settings the view offers, in clock units for the timeout
SettingValues ==
    [autoHealthCheck |-> {"none", "httpOnly", "all"}, healthCheckTimeoutMs |-> {1, 3},
     toolSearchMode |-> {"auto", "true", "false"}]

\* what ~/.claude/mcp-manager-settings.json may start with
InitManagerSettings ==
    {NoFile(EmptyManagerSettings, st) : st \in {"absent", "corrupt"}}
    \cup {[st |-> "ok", all |-> all] :
            all \in {NullDoc, Num, Obj(EmptyMap), Obj([autoHealthCheck |-> "httpOnly"]),
                     Obj([healthCheckTimeoutMs |-> 1, theme |-> "dark"])}}

\* the env object ~/.claude/settings.json may start with
InitEnv ==
    {Abs, Num, Obj(EmptyMap), Obj([ENABLE_TOOL_SEARCH |-> "true"]),
     Obj([OTHER_VAR |-> "value"]), Obj([ENABLE_TOOL_SEARCH |-> "false", OTHER_VAR |-> "value"])}
InitSettingsFiles ==
    {[NoFiles EXCEPT !.managerSettings = m] : m \in InitManagerSettings}
    \cup {[MixedFiles EXCEPT !.claudeSettings = NoFile(EmptyClaudeSettings, st)] :
            st \in {"absent", "corrupt", "scalar", "null"}}
    \cup {[MixedFiles EXCEPT !.claudeSettings = [ClaudeSettings(e) EXCEPT !.env = env]] :
            e \in {Abs, Obj("p1" :> TRUE)}, env \in InitEnv}

InitSettings ==
    /\ Quiet
    /\ fs \in InitSettingsFiles
    /\ workspaceRoot = Root
    /\ servers = {}
    /\ aggRejected = FALSE
    /\ stale = 0
    /\ last = LastOp("init", NoEntry, Toggled(fs, "ok", {}, "none"), FALSE)
    /\ pre = fs
    /\ trip = NoTrip
    /\ cache = EmptyMap
    /\ probes = EmptyMap

NextSettings ==
    \/ \E key \in {"autoHealthCheck", "healthCheckTimeoutMs"}, writeOk \in BOOLEAN,
          strictMode \in BOOLEAN :
          \E value \in SettingValues[key] : SettingsServiceSet(key, value, writeOk, strictMode)
    \/ \E key \in {"toolSearchMode", "unknown"}, writeOk \in BOOLEAN, strictMode \in BOOLEAN :
          \E value \in SettingValues.toolSearchMode :
             ClaudeCodeSettingsServiceSet(key, value, writeOk, strictMode)

SpecSettings == InitSettings /\ [][NextSettings]_vars

\* ------------------------------------------------------ toggles in flight
\* a toggleServer call between its steps: snap is the files as its readJson
\* found them
IdleToggle ==
    [pc |-> "idle", entry |-> NoEntry, snap |-> NoFiles, writeOk |-> TRUE,
     strictMode |-> TRUE, outcome |-> "pending"]

\* toggleServer is called and dispatches; its readJson is issued
ToggleStarts(t, entry, writeOk, strictMode) ==
    /\ toggles[t].pc = "idle"
    /\ toggles' = [toggles EXCEPT ![t] = [IdleToggle EXCEPT !.pc = "reading", !.entry = entry,
                                           !.writeOk = writeOk, !.strictMode = strictMode]]
    /\ UNCHANGED <<configVars, cache, probes, now, got, healthResults, events, batch, ranked>>

\* readJson settles with the file as it is now
ToggleReads(t) ==
    /\ toggles[t].pc = "reading"
    /\ toggles' = [toggles EXCEPT ![t].pc = "writing", ![t].snap = fs]
    /\ UNCHANGED <<configVars, cache, probes, now, got, healthResults, events, batch, ranked>>

\* the call edits what it read and writeJson settles: the files it writes
\* take the content it built, the other files are as they are now
ToggleWrites(t) ==
    LET call == toggles[t]
        result == toggleServer(call.snap, workspaceRoot, call.entry, call.writeOk,
                               call.strictMode)
    IN /\ call.pc = "writing"
       /\ fs' = [file \in DOMAIN fs |->
                    IF file \in result.wrote THEN result.fs[file] ELSE fs[file]]
       /\ toggles' = [toggles EXCEPT ![t].pc = "done", ![t].outcome = result.outcome]
       /\ UNCHANGED <<workspaceRoot, servers, aggRejected, stale, last, pre, trip>>
       /\ UNCHANGED <<cache, probes, now, got, healthResults, events, batch, ranked>>

\* two toggles issued from the server list of the mixed workspace
RaceFiles ==
    {[MixedFiles EXCEPT !.claudeSettings = c] :
        c \in {NoFile(EmptyClaudeSettings, "absent"), ClaudeSettings(Obj("p1" :> FALSE)),
               ClaudeSettings(Obj("p2" :> FALSE))}}

InitRace ==
    /\ now = 0
    /\ got = <<>>
    /\ healthResults = EmptyMap
    /\ events = 0
    /\ batch = NoBatch
    /\ toggles = [t \in {1, 2} |-> IdleToggle]
    /\ ranked = <<>>
    /\ fs \in RaceFiles
    /\ workspaceRoot = Root
    /\ servers = getAllServers(fs, workspaceRoot).entries
    /\ aggRejected = FALSE
    /\ stale = 0
    /\ last = LastOp("init", NoEntry, Toggled(fs, "ok", {}, "none"), FALSE)
    /\ pre = fs
    /\ trip = NoTrip
    /\ cache = EmptyMap
    /\ probes = EmptyMap

NextRace ==
    \/ \E t \in DOMAIN toggles, entry \in servers, writeOk \in BOOLEAN, strictMode \in BOOLEAN :
          ToggleStarts(t, entry, writeOk, strictMode)
    \/ \E t \in DOMAIN toggles : ToggleReads(t)
    \/ \E t \in DOMAIN toggles : ToggleWrites(t)

SpecRace == InitRace /\ [][NextRace]_vars

\* ----------------------------------------------------------- health values
\* the enum HealthStatus
HealthStatus ==
    [Unknown |-> "unknown",
     Checking |-> "checking",
     BinaryFound |-> "binary_found",
     CommandNotFound |-> "command_not_found",
     Reachable |-> "reachable",
     Unreachable |-> "unreachable",
     Healthy |-> "healthy",
     Degraded |-> "degraded",
     AuthFailed |-> "auth_failed",
     Error |-> "error"]

\* a JSON string, next to Num for a value of another type
Str(v) == [k |-> "str", v |-> v]

\* an error message is the set of the fragments it contains
Fragments == {"401", "403", "Unauthorized", "ENOENT", "ECONNREFUSED", "fetch failed"}
Message(has) == [k |-> "str", has |-> has]
NoMessage == [k |-> "abs", has |-> {}]
Includes(errorMsg, fragment) == fragment \in errorMsg.has

\* toolCount: omitted, or the number of tools
Omitted == [k |-> "abs", n |-> 0]
Count(n) == [k |-> "num", n |-> n]

\* HealthCheckResult without latencyMs; checkedAt is new Date(), the clock
\* when the result is built
HealthCheckResult(status, tier, toolCount, error) ==
    [status |-> status, tier |-> tier, toolCount |-> toolCount, error |-> error,
     checkedAt |-> now]
makeResult(status, tier) == HealthCheckResult(status, tier, Omitted, NoMessage)
NoResult == HealthCheckResult("none", 0, Omitted, NoMessage)

cacheKey(entry) == <<entry.name, ":", entry.scope>>

\* ------------------------------------------------------------------ clock
\* one unit of the clock is 5000 ms
TIER1_HTTP_TIMEOUT_MS == 1
TIER2_PING_TIMEOUT_MS == 1
DefaultMaxAgeMs == 60
SETTINGS_DEFAULTS == [autoHealthCheck |-> "all", healthCheckTimeoutMs |-> 3]

\* no timer armed
NoTimer == -1

\* the settings file as readAll returns it: an object, or the JSON value
\* null, on which all[key] throws
GetThrows(all) == all.k = "null"
\* SettingsService.get: all[key] ?? SETTINGS_DEFAULTS[key]
get(all, key) == IF key \in DOMAIN all.m THEN all.m[key] ELSE SETTINGS_DEFAULTS[key]
\* checkTier2 arming its timer with the default, whatever is configured
connectTimeout_AlwaysDefault(all) == SETTINGS_DEFAULTS.healthCheckTimeoutMs
\* const connectTimeout = await this.settingsService.get("healthCheckTimeoutMs")
connectTimeout(all) == get(all, "healthCheckTimeoutMs")

\* "command" in config throws TypeError when config is not an object
InThrows(config) == config.k # "obj"
isStdioConfig(config) == "command" \in DOMAIN config.m
isHttpConfig(config) == "url" \in DOMAIN config.m

\* --------------------------------------------------------------- Tier 1
\* which.sync(command, {nothrow: true}): the resolved path or null; it throws
\* when command is not a string
Lookup(config, onPath) ==
    IF config.m.command.k # "str" THEN [threw |-> TRUE, found |-> FALSE]
    ELSE [threw |-> FALSE, found |-> onPath]
\* tier1Stdio taking a lookup that throws for a command that is not found
tier1Stdio_ThrowIsMissing(config, onPath) ==
    IF Lookup(config, onPath).found THEN makeResult(HealthStatus.BinaryFound, 1)
    ELSE HealthCheckResult(HealthStatus.CommandNotFound, 1, Omitted, Message({}))

tier1Stdio(config, onPath) ==
    IF Lookup(config, onPath).threw
    THEN HealthCheckResult(HealthStatus.Error, 1, Omitted, Message({}))
    ELSE IF onPath THEN makeResult(HealthStatus.BinaryFound, 1)
    ELSE HealthCheckResult(HealthStatus.CommandNotFound, 1, Omitted, Message({}))

\* a URL fetch and new URL accept
UrlParses(url) == url.k = "str" /\ url.v # "bad"

\* what the HEAD request settles with: a response, or a rejection
Response(status) == [threw |-> FALSE, status |-> status]
FetchRejects == [threw |-> TRUE, status |-> 0]
HttpStatuses == {200, 401, 403, 404, 405, 500}
Responses == {Response(st) : st \in HttpStatuses} \cup {FetchRejects}

\* tier1Http taking an error status for an endpoint that is down
tier1Http_ErrorStatusIsDown(config, response) ==
    IF response.threw \/ response.status >= 404
    THEN HealthCheckResult(HealthStatus.Unreachable, 1, Omitted, Message({}))
    ELSE IF response.status = 401 \/ response.status = 403
    THEN HealthCheckResult(HealthStatus.AuthFailed, 1, Omitted,
                           Message({IF response.status = 401 THEN "401" ELSE "403"}))
    ELSE makeResult(HealthStatus.Reachable, 1)

tier1Http(config, response) ==
    IF response.threw
    THEN HealthCheckResult(HealthStatus.Unreachable, 1, Omitted, Message({}))
    ELSE IF response.status = 401 \/ response.status = 403
    THEN HealthCheckResult(HealthStatus.AuthFailed, 1, Omitted,
                           Message({IF response.status = 401 THEN "401" ELSE "403"}))
    ELSE makeResult(HealthStatus.Reachable, 1)

\* --------------------------------------------------------------- Tier 2
\* the catch block of checkTier2: the status a failure is given
Classify(errorMsg) ==
    IF \/ Includes(errorMsg, "401") \/ Includes(errorMsg, "403")
       \/ Includes(errorMsg, "Unauthorized")
    THEN HealthStatus.AuthFailed
    ELSE IF Includes(errorMsg, "ENOENT") THEN HealthStatus.CommandNotFound
    ELSE IF Includes(errorMsg, "ECONNREFUSED") \/ Includes(errorMsg, "fetch failed")
    THEN HealthStatus.Unreachable
    ELSE HealthStatus.Error
Failed(errorMsg) == HealthCheckResult(Classify(errorMsg), 2, Omitted, errorMsg)

\* ---------------------------------------------------------------- probes
\* one call of checkTier1 or checkTier2: pc is the await it is suspended at,
\* log the operations it has performed, io what each of them settled with,
\* result the result it has built, outcome how its promise settled; timer is
\* when the timer racing connect fires (it is never cleared), raceAt when the
\* race began, hung whether connect is still pending after losing the race,
\* due when the timeout of the request in flight (fetch, ping, listTools)
\* fires
Probe(tier, entry, pc, log, result, outcome) ==
    [tier |-> tier, entry |-> entry, pc |-> pc, log |-> log, io |-> EmptyMap,
     result |-> result, outcome |-> outcome,
     timer |-> NoTimer, raceAt |-> NoTimer, hung |-> FALSE, due |-> NoTimer]
\* the timeout an operation is issued with
Due(op) ==
    IF op = "fetch" THEN now + TIER1_HTTP_TIMEOUT_MS
    ELSE IF op \in {"ping", "listTools"} THEN now + TIER2_PING_TIMEOUT_MS
    ELSE NoTimer
Settled(call, op, with) == [call EXCEPT !.io = With(call.io, op, with)]
Resolved(call, result) == [call EXCEPT !.pc = "done", !.result = result, !.outcome = "resolved"]
Rejected(call) == [call EXCEPT !.pc = "done", !.outcome = "rejected"]
Performed(call, pc, op) ==
    [call EXCEPT !.pc = pc, !.log = Append(call.log, op), !.due = Due(op)]
\* the catch block, then the close of the finally block is issued
Caught(call, errorMsg) ==
    Performed([call EXCEPT !.result = Failed(errorMsg)], "closing", "close")

IdleProbe == Probe(0, NoEntry, "idle", <<>>, NoResult, "pending")
SetProbe(p, call) == probes' = [probes EXCEPT ![p] = call]
CacheSet(entry, result) == cache' = With(cache, cacheKey(entry), result)

\* checkTier1 up to its first await; onPath is what the search path holds
Tier1Started(entry, onPath) ==
    LET call == Probe(1, entry, "idle", <<>>, NoResult, "pending")
    IN IF ~entry.enabled THEN Resolved(call, makeResult(HealthStatus.Unknown, 1))
       ELSE IF InThrows(entry.config) THEN Rejected(call)
       ELSE IF isStdioConfig(entry.config)
       THEN [Settled(Performed(call, "resuming", "which"), "which",
                     Lookup(entry.config, onPath))
                EXCEPT !.result = tier1Stdio(entry.config, onPath)]
       ELSE IF isHttpConfig(entry.config) THEN Performed(call, "fetching", "fetch")
       ELSE Resolved(call, makeResult(HealthStatus.Unknown, 1))
\* the config is neither kind: checkTier1 stores Unknown without an await
Tier1StoresAtOnce(entry) ==
    /\ entry.enabled /\ ~InThrows(entry.config)
    /\ ~isStdioConfig(entry.config) /\ ~isHttpConfig(entry.config)

CheckTier1(p, entry, onPath) ==
    /\ probes[p].pc = "idle"
    /\ SetProbe(p, Tier1Started(entry, onPath))
    /\ IF Tier1StoresAtOnce(entry)
       THEN CacheSet(entry, makeResult(HealthStatus.Unknown, 1))
       ELSE UNCHANGED cache
    /\ UNCHANGED <<configVars, restVars>>

\* checkTier1 resumes after await tier1Stdio
Tier1StdioResumes(p) ==
    /\ probes[p].pc = "resuming"
    /\ SetProbe(p, Resolved(probes[p], probes[p].result))
    /\ CacheSet(probes[p].entry, probes[p].result)
    /\ UNCHANGED <<configVars, restVars>>

\* the HEAD request of tier1Http settles and checkTier1 resumes
FetchSettles(p, response) ==
    LET result == tier1Http(probes[p].entry.config, response)
    IN /\ probes[p].pc = "fetching"
       \* fetch rejects a URL it cannot parse
       /\ UrlParses(probes[p].entry.config.m.url) \/ response = FetchRejects
       /\ SetProbe(p, Resolved(Settled(probes[p], "fetch", response), result))
       /\ CacheSet(probes[p].entry, result)
       /\ UNCHANGED <<configVars, restVars>>

\* checkTier2 without the test of entry.enabled
CheckTier2_NoEnabledGuard(p, entry) ==
    /\ probes[p].pc = "idle"
    /\ SetProbe(p, Performed(Probe(2, entry, "idle", <<>>, NoResult, "pending"),
                             "settings", "get"))
    /\ UNCHANGED <<cache, configVars, restVars>>

\* checkTier2 up to await settingsService.get
Tier2Started(entry) ==
    LET call == Probe(2, entry, "idle", <<>>, NoResult, "pending")
    IN IF ~entry.enabled THEN Resolved(call, makeResult(HealthStatus.Unknown, 2))
       ELSE Performed(call, "settings", "get")

CheckTier2(p, entry) ==
    /\ probes[p].pc = "idle"
    /\ SetProbe(p, Tier2Started(entry))
    /\ UNCHANGED <<cache, configVars, restVars>>

\* settingsService.get settles: it rejects when the settings file holds the
\* JSON value null (all[key] on null).  Then the try block runs up to the
\* await of the race between connect and the timer.
SettingsSettles(p, all) ==
    LET entry == probes[p].entry
        created == Performed(Settled(probes[p], "get", all), "settings", "new Client")
        racing == [Performed(created, "connecting", "connect")
                      EXCEPT !.timer = now + connectTimeout(all), !.raceAt = now]
    IN /\ probes[p].pc = "settings"
       /\ IF GetThrows(all)
          THEN SetProbe(p, Rejected(Settled(probes[p], "get", all))) /\ UNCHANGED cache
          ELSE IF InThrows(entry.config)
          THEN \* isStdioConfig throws inside the try block
               /\ SetProbe(p, Caught(created, Message({})))
               /\ CacheSet(entry, Failed(Message({})))
          ELSE IF isStdioConfig(entry.config)
          THEN SetProbe(p, racing) /\ UNCHANGED cache
          ELSE IF isHttpConfig(entry.config)
          THEN IF UrlParses(entry.config.m.url)
               THEN SetProbe(p, racing) /\ UNCHANGED cache
               ELSE \* new URL throws
                    /\ SetProbe(p, Caught(created, Message({})))
                    /\ CacheSet(entry, Failed(Message({})))
          ELSE \* return makeResult(Unknown, 2) inside the try block
               /\ SetProbe(p, Performed([created EXCEPT !.result = makeResult(HealthStatus.Unknown, 2)],
                                        "closing", "close"))
               /\ UNCHANGED cache
       /\ UNCHANGED <<configVars, restVars>>

\* the race settles: connect resolved, connect rejected with a message, or
\* the timer rejected with "Connection timed out"
Connected == [ok |-> TRUE, msg |-> NoMessage]
Fails(errorMsg) == [ok |-> FALSE, msg |-> errorMsg]
TimedOut == Fails(Message({"timed out"}))
ConnectSettles(p, settled) ==
    LET \* when the timer wins, it has fired and connect stays pending
        call == IF settled = TimedOut
                THEN [probes[p] EXCEPT !.timer = NoTimer, !.hung = TRUE]
                ELSE probes[p]
    IN
    /\ probes[p].pc = "connecting"
    /\ IF settled.ok
       THEN /\ SetProbe(p, Performed(Settled(call, "connect", settled), "pinging", "ping"))
            /\ UNCHANGED cache
       ELSE /\ SetProbe(p, Caught(Settled(call, "connect", settled), settled.msg))
            /\ CacheSet(probes[p].entry, Failed(settled.msg))
    /\ UNCHANGED <<configVars, restVars>>

PingSettles(p, settled) ==
    /\ probes[p].pc = "pinging"
    /\ IF settled.ok
       THEN /\ SetProbe(p, Performed(Settled(probes[p], "ping", settled), "listing", "listTools"))
            /\ UNCHANGED cache
       ELSE /\ SetProbe(p, Caught(Settled(probes[p], "ping", settled), settled.msg))
            /\ CacheSet(probes[p].entry, Failed(settled.msg))
    /\ UNCHANGED <<configVars, restVars>>

\* listTools settles with the list of tools or rejects; the result is built
\* and cached, and the close of the finally block is issued
Listed(n) == [ok |-> TRUE, n |-> n]
ListFails == [ok |-> FALSE, n |-> 0]
\* listTools inside the outer try block: its failure is caught as a failure
\* of the probe
ListToolsSettles_FailureIsFatal(p, tools) ==
    LET result == IF tools.ok
                  THEN HealthCheckResult(HealthStatus.Healthy, 2, Count(tools.n), NoMessage)
                  ELSE Failed(Message({}))
    IN /\ probes[p].pc = "listing"
       /\ SetProbe(p, Performed([Settled(probes[p], "listTools", tools)
                                    EXCEPT !.result = result], "closing", "close"))
       /\ CacheSet(probes[p].entry, result)
       /\ UNCHANGED <<configVars, restVars>>

ListToolsSettles(p, tools) ==
    LET toolCount == IF tools.ok THEN Count(tools.n) ELSE Omitted
        result == HealthCheckResult(HealthStatus.Healthy, 2, toolCount, NoMessage)
    IN /\ probes[p].pc = "listing"
       /\ SetProbe(p, Performed([Settled(probes[p], "listTools", tools)
                                    EXCEPT !.result = result], "closing", "close"))
       /\ CacheSet(probes[p].entry, result)
       /\ UNCHANGED <<configVars, restVars>>

\* the finally block without its try/catch: a close that throws replaces the
\* result of the call
CloseSettles_Propagates(p, closeOk) ==
    /\ probes[p].pc = "closing"
    /\ IF closeOk
       THEN SetProbe(p, Resolved(Settled(probes[p], "close", closeOk), probes[p].result))
       ELSE SetProbe(p, Rejected(Settled(probes[p], "close", closeOk)))
    /\ UNCHANGED <<cache, configVars, restVars>>

\* client.close settles, resolved or rejected, and checkTier2 returns
CloseSettles(p, closeOk) ==
    /\ probes[p].pc = "closing"
    /\ SetProbe(p, Resolved(Settled(probes[p], "close", closeOk), probes[p].result))
    /\ UNCHANGED <<cache, configVars, restVars>>

\* ------------------------------------------------------------ cache reads
\* got holds the last call of getCachedResult or clearCache: the key read,
\* the window, the clock, the cache entry found and the value returned
\* (NoResult for undefined)
CacheOp(op, key, maxAgeMs, before, returned) ==
    <<[op |-> op, key |-> key, maxAgeMs |-> maxAgeMs, at |-> now,
       before |-> before, returned |-> returned]>>

\* getCachedResult dropping an entry as soon as its age reaches the window
getCachedResult_ExpiresAtWindow(entry, maxAgeMs) ==
    LET key == cacheKey(entry)
    IN IF key \notin DOMAIN cache
       THEN got' = CacheOp("getCachedResult", key, maxAgeMs, NoResult, NoResult)
            /\ UNCHANGED cache
       ELSE IF now - cache[key].checkedAt >= maxAgeMs
       THEN got' = CacheOp("getCachedResult", key, maxAgeMs, cache[key], NoResult)
            /\ cache' = Without(cache, key)
       ELSE got' = CacheOp("getCachedResult", key, maxAgeMs, cache[key], cache[key])
            /\ UNCHANGED cache

getCachedResult(entry, maxAgeMs) ==
    LET key == cacheKey(entry)
    IN IF key \notin DOMAIN cache
       THEN got' = CacheOp("getCachedResult", key, maxAgeMs, NoResult, NoResult)
            /\ UNCHANGED cache
       ELSE IF now - cache[key].checkedAt > maxAgeMs
       THEN got' = CacheOp("getCachedResult", key, maxAgeMs, cache[key], NoResult)
            /\ cache' = Without(cache, key)
       ELSE got' = CacheOp("getCachedResult", key, maxAgeMs, cache[key], cache[key])
            /\ UNCHANGED cache

GetCachedResult(entry, maxAgeMs) ==
    /\ getCachedResult(entry, maxAgeMs)
    /\ UNCHANGED <<probes, configVars, now, healthResults, events, batch, toggles, ranked>>

ClearCache ==
    /\ cache' = EmptyMap
    /\ got' = CacheOp("clearCache", <<>>, 0, NoResult, NoResult)
    /\ UNCHANGED <<probes, configVars, now, healthResults, events, batch, toggles, ranked>>

\* the timer racing connect fires while connect is pending
TimerWins(p) ==
    /\ probes[p].timer # NoTimer /\ now >= probes[p].timer
    /\ ConnectSettles(p, TimedOut)

\* the timer fires after connect has settled: its rejection goes to a race
\* that is already decided
TimerLate(p) ==
    /\ probes[p].timer # NoTimer /\ now >= probes[p].timer
    /\ probes[p].pc # "connecting"
    /\ SetProbe(p, [probes[p] EXCEPT !.timer = NoTimer])
    /\ UNCHANGED <<cache, configVars, restVars>>

\* connect settles after the timer has won the race
LateConnect(p, settled) ==
    /\ probes[p].hung
    /\ SetProbe(p, [probes[p] EXCEPT !.hung = FALSE])
    /\ UNCHANGED <<cache, configVars, restVars>>

\* the timeout of the request in flight fires: AbortSignal.timeout aborts
\* the fetch, the SDK rejects the ping or the listTools request
RequestTimesOut(p) ==
    /\ probes[p].due # NoTimer /\ now >= probes[p].due
    /\ \/ FetchSettles(p, FetchRejects)
       \/ PingSettles(p, Fails(Message({"timed out"})))
       \/ ListToolsSettles(p, ListFails)

\* the timers armed and not yet fired
Deadlines ==
    {probes[p].timer : p \in {q \in DOMAIN probes : probes[q].timer # NoTimer}}
    \cup {probes[p].due : p \in {q \in DOMAIN probes : probes[q].due # NoTimer
                                                       /\ probes[q].pc \in {"fetching", "pinging", "listing"}}}

\* the tools a server may list
MaxTools == 2

\* the error messages a connect or a ping may reject with
Messages ==
    {Message(has) : has \in {{}} \cup {{x} : x \in Fragments}
                            \cup {{"ENOENT", "401"}, {"ECONNREFUSED", "403"},
                                  {"ENOENT", "ECONNREFUSED"}, {"fetch failed", "Unauthorized"}}}
Settlements == {Connected, TimedOut} \cup {Fails(m) : m \in Messages}
PingSettlements == {Connected} \cup {Fails(m) : m \in Messages}
ToolLists == {Listed(n) : n \in 0..MaxTools} \cup {ListFails}

\* the settings file: the value null, a number, an object without the
\* timeout, an object with a timeout shorter than the default
SettingsDocs ==
    {NullDoc, Num, Obj(EmptyMap), Obj([healthCheckTimeoutMs |-> 1]),
     Obj([healthCheckTimeoutMs |-> 2])}

\* the server configs a config file may hold: a process-launch config, one
\* whose command is not a string, network-endpoint configs, a config with
\* both keys, the empty object and a JSON number
HealthConfigs ==
    {Obj([command |-> Str("node")]), Obj([command |-> Num]),
     Obj([url |-> Str("http://h")]), Obj([url |-> Str("bad")]),
     Obj([command |-> Str("node"), url |-> Str("http://h")]),
     Obj(EmptyMap), Num}
HealthEntries ==
    {McpServerEntry("a", config, "user", enabled, claudeGlobalPath, "") :
        config \in HealthConfigs, enabled \in BOOLEAN}

\* the cache before the call: empty, or holding an earlier result of the entry
InitCaches ==
    {EmptyMap,
     <<"a", ":", "user">> :> makeResult(HealthStatus.BinaryFound, 1),
     <<"a", ":", "user">> :> HealthCheckResult(HealthStatus.Healthy, 2, Count(1), NoMessage)}

\* one entry in the server list, one probe call to be made
InitHealth ==
    /\ Quiet
    /\ fs = NoFiles
    /\ workspaceRoot = Root
    /\ servers \in {{e} : e \in HealthEntries}
    /\ aggRejected = FALSE
    /\ stale = 0
    /\ last = LastOp("init", NoEntry, Toggled(fs, "ok", {}, "none"), FALSE)
    /\ pre = fs
    /\ trip = NoTrip
    /\ cache \in InitCaches
    /\ probes = [p \in {1} |-> IdleProbe]

NextHealth ==
    \/ \E p \in DOMAIN probes, entry \in servers, onPath \in BOOLEAN :
          CheckTier1(p, entry, onPath)
    \/ \E p \in DOMAIN probes : Tier1StdioResumes(p)
    \/ \E p \in DOMAIN probes, response \in Responses : FetchSettles(p, response)
    \/ \E p \in DOMAIN probes, entry \in servers : CheckTier2(p, entry)
    \/ \E p \in DOMAIN probes, all \in SettingsDocs : SettingsSettles(p, all)
    \/ \E p \in DOMAIN probes, settled \in Settlements : ConnectSettles(p, settled)
    \/ \E p \in DOMAIN probes, settled \in PingSettlements : PingSettles(p, settled)
    \/ \E p \in DOMAIN probes, tools \in ToolLists : ListToolsSettles(p, tools)
    \/ \E p \in DOMAIN probes, closeOk \in BOOLEAN : CloseSettles(p, closeOk)

SpecHealth == InitHealth /\ [][NextHealth]_vars

\* ------------------------------------------------------------ the clock
\* what connect and ping settle with on the clock; the timers are actions
Plain == {Connected, Fails(Message({}))}

\* the clock is observed shortly after the start and one expiry window later
MaxClock == 4
Observed(t) == t % DefaultMaxAgeMs <= MaxClock /\ t <= DefaultMaxAgeMs + MaxClock

\* time passes, but not beyond a timer that is armed: a timer fires when it
\* is due
Tick(d) ==
    /\ Observed(now + d)
    /\ \A t \in Deadlines : now + d <= t
    /\ now' = now + d
    /\ UNCHANGED <<cache, probes, configVars, got, healthResults, events, batch, toggles, ranked>>

\* ------------------------------------------------------ batches of probes
\* in the batches servers is the array of the provider; probe i is the call
\* made for the i-th candidate, batch.recorded[i] whether its result is on
\* display
IsEnabled(s) == s.enabled
HttpCandidate(s) == isHttpConfig(s.config)
Checking == makeResult(HealthStatus.Checking, 2)
KeysOf(list) == {cacheKey(list[i]) : i \in DOMAIN list}
Started(kind, calls) ==
    [kind |-> kind, state |-> "pending", recorded |-> [i \in DOMAIN calls |-> FALSE]]
Finished(kind, state) == [kind |-> kind, state |-> state, recorded |-> <<>>]
\* the calls of the batch come first in probes, the calls made by
\* deepCheckServer after them
Members == DOMAIN batch.recorded
Singles == SubSeq(probes, Len(batch.recorded) + 1, Len(probes))

\* deepCheckAll calling checkTier2 on every entry of the array
DeepCheckAll_ProbesEveryEntry ==
    LET enabled == SelectSeq(servers, IsEnabled)
        calls == [i \in DOMAIN servers |-> Tier2Started(servers[i])]
    IN /\ batch.kind = "none"
       /\ healthResults' = [k \in DOMAIN healthResults \cup KeysOf(enabled) |->
                               IF k \in KeysOf(enabled) THEN Checking ELSE healthResults[k]]
       /\ events' = events + 1
       /\ probes' = calls
       /\ batch' = Started("deepCheckAll", calls)
       /\ UNCHANGED <<cache, configVars, now, got, toggles, ranked>>

\* deepCheckAll up to await Promise.all: every enabled entry is marked
\* Checking, one change event is fired, and checkTier2 is called on each
DeepCheckAll ==
    LET enabled == SelectSeq(servers, IsEnabled)
        calls == [i \in DOMAIN enabled |-> Tier2Started(enabled[i])]
    IN /\ batch.kind = "none"
       /\ healthResults' = [k \in DOMAIN healthResults \cup KeysOf(enabled) |->
                               IF k \in KeysOf(enabled) THEN Checking ELSE healthResults[k]]
       /\ events' = events + 1
       /\ probes' = calls \o Singles
       /\ batch' = Started("deepCheckAll", calls)
       /\ UNCHANGED <<cache, configVars, now, got, toggles, ranked>>

\* the async callback of deepCheckAll resumes after await checkTier2
RecordResult(p) ==
    /\ batch.kind = "deepCheckAll" /\ p \in Members
    /\ probes[p].pc = "done" /\ probes[p].outcome = "resolved" /\ ~batch.recorded[p]
    /\ healthResults' = With(healthResults, cacheKey(probes[p].entry), probes[p].result)
    /\ events' = events + 1
    /\ batch' = [batch EXCEPT !.recorded[p] = TRUE]
    /\ UNCHANGED <<cache, probes, configVars, now, got, toggles, ranked>>

\* Promise.all resolves and deepCheckAll returns
DeepCheckAllResolves ==
    /\ batch.kind = "deepCheckAll" /\ batch.state = "pending"
    /\ \A p \in Members : batch.recorded[p]
    /\ batch' = [batch EXCEPT !.state = "resolved"]
    /\ UNCHANGED <<cache, probes, configVars, now, got, healthResults, events, toggles, ranked>>

\* Promise.all rejects with the rejection of a call
BatchRejects ==
    /\ batch.state = "pending"
    /\ \E p \in Members : probes[p].outcome = "rejected"
    /\ batch' = [batch EXCEPT !.state = "rejected"]
    /\ UNCHANGED <<cache, probes, configVars, now, got, healthResults, events, toggles, ranked>>

\* runTier1Checks up to await Promise.all; autoSetting is
\* cachedSettings.autoHealthCheck
RunTier1Checks(autoSetting, onPath) ==
    LET enabled == SelectSeq(servers, IsEnabled)
        throws == autoSetting = "httpOnly" /\ \E i \in DOMAIN enabled : InThrows(enabled[i].config)
        candidates == IF autoSetting = "httpOnly" /\ ~throws
                      THEN SelectSeq(enabled, HttpCandidate) ELSE enabled
        calls == [i \in DOMAIN candidates |-> Tier1Started(candidates[i], onPath)]
        atOnce == {cacheKey(candidates[i]) :
                     i \in {j \in DOMAIN candidates : Tier1StoresAtOnce(candidates[j])}}
    IN /\ batch.kind = "none"
       /\ IF autoSetting = "none" \/ throws \/ candidates = <<>>
          THEN /\ batch' = Finished("runTier1Checks", IF throws THEN "rejected" ELSE "resolved")
               /\ UNCHANGED <<probes, cache>>
          ELSE /\ batch' = Started("runTier1Checks", calls)
               /\ probes' = calls \o Singles
               /\ cache' = [k \in DOMAIN cache \cup atOnce |->
                               IF k \in atOnce THEN makeResult(HealthStatus.Unknown, 1)
                               ELSE cache[k]]
       /\ UNCHANGED <<configVars, now, got, healthResults, events, toggles, ranked>>

\* for (const [server, result] of results) this.healthResults.set(...)
RECURSIVE StoreAll(_, _, _)
StoreAll(results, calls, i) ==
    IF i > Len(calls) THEN results
    ELSE StoreAll(With(results, cacheKey(calls[i].entry), calls[i].result), calls, i + 1)

\* Promise.all resolves: runTier1Checks stores every result and fires one
\* change event
Tier1BatchRecords ==
    /\ batch.kind = "runTier1Checks" /\ batch.state = "pending"
    /\ \A p \in Members : probes[p].pc = "done" /\ probes[p].outcome = "resolved"
    /\ healthResults' = StoreAll(healthResults, SubSeq(probes, 1, Len(batch.recorded)), 1)
    /\ events' = events + 1
    /\ batch' = [batch EXCEPT !.state = "resolved",
                              !.recorded = [i \in Members |-> TRUE]]
    /\ UNCHANGED <<cache, probes, configVars, now, got, toggles, ranked>>

\* two entries of the server array, enabled or not
BatchEntry(name, config, enabled) ==
    McpServerEntry(name, config, "user", enabled, claudeGlobalPath, "")
BatchLists ==
    {<<BatchEntry("a", c1, e1), BatchEntry("b", c2, e2)>> :
        c1 \in {Obj([command |-> Str("node")])},
        c2 \in {Obj([command |-> Str("node")]), Obj([url |-> Str("http://h")]), Obj(EmptyMap), Num},
        e1 \in BOOLEAN, e2 \in BOOLEAN}

InitBatch ==
    /\ now = 0
    /\ got = <<>>
    /\ healthResults = cacheKey(BatchEntry("a", Num, TRUE)) :> makeResult(HealthStatus.BinaryFound, 1)
    /\ events = 0
    /\ batch = NoBatch
    /\ toggles = EmptyMap
    /\ ranked = <<>>
    /\ fs = NoFiles
    /\ workspaceRoot = Root
    /\ servers \in BatchLists
    /\ aggRejected = FALSE
    /\ stale = 0
    /\ last = LastOp("init", NoEntry, Toggled(fs, "ok", {}, "none"), FALSE)
    /\ pre = fs
    /\ trip = NoTrip
    /\ cache = EmptyMap
    /\ probes = <<>>

NextBatch ==
    \/ DeepCheckAll
    \/ \E p \in DOMAIN probes : RecordResult(p)
    \/ DeepCheckAllResolves
    \/ BatchRejects
    \/ \E autoSetting \in {"all", "httpOnly", "none"} : RunTier1Checks(autoSetting, TRUE)
    \/ Tier1BatchRecords
    \/ batch.kind # "none" /\ Tick(1)
    \/ \E p \in DOMAIN probes : Tier1StdioResumes(p)
    \/ \E p \in DOMAIN probes : FetchSettles(p, Response(200))
    \/ \E p \in DOMAIN probes, all \in {NullDoc, Obj([healthCheckTimeoutMs |-> 1])} :
          SettingsSettles(p, all)
    \/ \E p \in DOMAIN probes, settled \in Plain : ConnectSettles(p, settled)
    \/ \E p \in DOMAIN probes : TimerWins(p)
    \/ \E p \in DOMAIN probes : TimerLate(p)
    \/ \E p \in DOMAIN probes : LateConnect(p, Connected)
    \/ \E p \in DOMAIN probes : PingSettles(p, Connected)
    \/ \E p \in DOMAIN probes : ListToolsSettles(p, Listed(1))
    \/ \E p \in DOMAIN probes : RequestTimesOut(p)
    \/ \E p \in DOMAIN probes : CloseSettles(p, TRUE)

SpecBatch == InitBatch /\ [][NextBatch]_vars

\* ------------------------------------------- a deep check of one server
\* deep checks of single servers started while a batch may be in flight
MaxSingles == 1

\* deepCheckServer up to await checkTier2: the entry is marked Checking, a
\* change event is fired and checkTier2 is called
DeepCheckServer(entry) ==
    /\ Len(Singles) < MaxSingles
    /\ healthResults' = With(healthResults, cacheKey(entry), Checking)
    /\ events' = events + 1
    /\ probes' = Append(probes, Tier2Started(entry))
    /\ UNCHANGED <<cache, configVars, now, got, batch, toggles, ranked>>

\* deepCheckServer resumes after await checkTier2: the result is stored and
\* a change event is fired; the call has then returned
DeepCheckServerRecords(p) ==
    /\ p \in DOMAIN probes \ Members
    /\ probes[p].pc = "done" /\ probes[p].outcome = "resolved"
    /\ healthResults' = With(healthResults, cacheKey(probes[p].entry), probes[p].result)
    /\ events' = events + 1
    /\ probes' = [probes EXCEPT ![p].pc = "returned"]
    /\ UNCHANGED <<cache, configVars, now, got, batch, toggles, ranked>>

\* a process-launch server and a network server, both enabled, nothing on
\* display yet
InitOverlap ==
    /\ now = 0
    /\ got = <<>>
    /\ healthResults = EmptyMap
    /\ events = 0
    /\ batch = NoBatch
    /\ toggles = EmptyMap
    /\ ranked = <<>>
    /\ fs = NoFiles
    /\ workspaceRoot = Root
    /\ servers = <<BatchEntry("a", Obj([command |-> Str("node")]), TRUE),
                   BatchEntry("b", Obj([url |-> Str("http://h")]), TRUE)>>
    /\ aggRejected = FALSE
    /\ stale = 0
    /\ last = LastOp("init", NoEntry, Toggled(fs, "ok", {}, "none"), FALSE)
    /\ pre = fs
    /\ trip = NoTrip
    /\ cache = EmptyMap
    /\ probes = <<>>

\* the tail of refresh, a deepCheckAll and deepCheckServer calls and their
\* probes, whose requests settle before their timeouts or not at all; the
\* clock is read at two instants
NextOverlap ==
    \/ RunTier1Checks("all", TRUE)
    \/ Tier1BatchRecords
    \/ DeepCheckAll
    \/ \E p \in DOMAIN probes : RecordResult(p)
    \/ DeepCheckAllResolves
    \/ BatchRejects
    \/ \E i \in DOMAIN servers : DeepCheckServer(servers[i])
    \/ \E p \in DOMAIN probes : DeepCheckServerRecords(p)
    \/ now = 0 /\ Tick(1)
    \/ \E p \in DOMAIN probes : Tier1StdioResumes(p)
    \/ \E p \in DOMAIN probes : FetchSettles(p, Response(200))
    \/ \E p \in DOMAIN probes, all \in {NullDoc, Obj(EmptyMap)} : SettingsSettles(p, all)
    \/ \E p \in DOMAIN probes : ConnectSettles(p, Connected)
    \/ \E p \in DOMAIN probes : PingSettles(p, Connected)
    \/ \E p \in DOMAIN probes : ListToolsSettles(p, Listed(1))
    \/ \E p \in DOMAIN probes : CloseSettles(p, TRUE)

SpecOverlap == InitOverlap /\ [][NextOverlap]_vars

\* ---------------------------------------------------------------- ranking
HEALTH_SORT_PRIORITY_CheckingLast ==
    [st \in {HealthStatus[x] : x \in DOMAIN HealthStatus} |->
        IF st \in {HealthStatus.Healthy, HealthStatus.BinaryFound, HealthStatus.Reachable}
        THEN 0 ELSE IF st = HealthStatus.Unknown THEN 2 ELSE 3]
HEALTH_SORT_PRIORITY ==
    [st \in {HealthStatus[x] : x \in DOMAIN HealthStatus} |->
        IF st \in {HealthStatus.Healthy, HealthStatus.BinaryFound, HealthStatus.Reachable}
        THEN 0
        ELSE IF st = HealthStatus.Checking THEN 1
        ELSE IF st = HealthStatus.Unknown THEN 2
        ELSE 3]
HEALTH_SORT_PRIORITY_DEFAULT == 2

\* new McpServerItem(entry, healthResult); healthResult is NoResult when the
\* map has no result under the key
McpServerItem(entry, results) ==
    [entry |-> entry,
     healthResult |-> IF cacheKey(entry) \in DOMAIN results
                      THEN results[cacheKey(entry)] ELSE NoResult]

\* a one-letter name: its letter and its case
Letter(name) == IF name \in {"a", "A"} THEN 1 ELSE 2
IsUpper(name) == name \in {"A", "B"}
\* the UTF-16 code unit of the letter
CodeUnit(name) ==
    IF name = "A" THEN 65 ELSE IF name = "B" THEN 66 ELSE IF name = "a" THEN 97 ELSE 98

\* a comparison of the names by code unit
localeCompare_CodeUnits(x, y, lowerFirst) ==
    IF CodeUnit(x) < CodeUnit(y) THEN -1 ELSE IF CodeUnit(x) > CodeUnit(y) THEN 1 ELSE 0
\* x.localeCompare(y): the letters decide; between the two cases of one
\* letter the locale decides (lowerFirst: lower case sorts first)
localeCompare(x, y, lowerFirst) ==
    IF Letter(x) < Letter(y) THEN -1
    ELSE IF Letter(x) > Letter(y) THEN 1
    ELSE IF x = y THEN 0
    ELSE IF IsUpper(y) = lowerFirst THEN -1 ELSE 1

\* the comparator handed to sort
CompareItems(a, b, lowerFirst) ==
    LET pa == IF a.healthResult # NoResult
              THEN HEALTH_SORT_PRIORITY[a.healthResult.status]
              ELSE HEALTH_SORT_PRIORITY_DEFAULT
        pb == IF b.healthResult # NoResult
              THEN HEALTH_SORT_PRIORITY[b.healthResult.status]
              ELSE HEALTH_SORT_PRIORITY_DEFAULT
    IN IF pa # pb THEN pa - pb
       ELSE localeCompare(a.entry.name, b.entry.name, lowerFirst)

\* Array.prototype.sort: a stable sort, here by insertion; x goes behind
\* every item that does not compare greater
RECURSIVE InsertItem(_, _, _, _)
InsertItem(sorted, x, i, lowerFirst) ==
    IF i > Len(sorted) \/ CompareItems(sorted[i], x, lowerFirst) > 0
    THEN SubSeq(sorted, 1, i - 1) \o <<x>> \o SubSeq(sorted, i, Len(sorted))
    ELSE InsertItem(sorted, x, i + 1, lowerFirst)
RECURSIVE SortItems(_, _, _, _)
SortItems(items, i, sorted, lowerFirst) ==
    IF i > Len(items) THEN sorted
    ELSE SortItems(items, i + 1, InsertItem(sorted, items[i], 1, lowerFirst), lowerFirst)

\* this.servers.filter((s) => s.scope === scope)
RECURSIVE FilterScope(_, _, _)
FilterScope(list, scope, i) ==
    IF i > Len(list) THEN <<>>
    ELSE (IF list[i].scope = scope THEN <<list[i]>> ELSE <<>>) \o FilterScope(list, scope, i + 1)

getServerItems(list, results, scope, lowerFirst) ==
    LET group == FilterScope(list, scope, 1)
        items == [i \in DOMAIN group |-> McpServerItem(group[i], results)]
    IN SortItems(items, 1, <<>>, lowerFirst)

\* getChildren of a scope group; here servers is the array of the provider
GetServerItems(scope, lowerFirst) ==
    /\ ranked' = <<[scope |-> scope, lowerFirst |-> lowerFirst,
                    items |-> getServerItems(servers, healthResults, scope, lowerFirst)]>>
    /\ UNCHANGED <<configVars, cache, probes, now, got, healthResults, events, batch, toggles>>

\* the server arrays ranked: names in both cases, in several orders, one
\* name twice, and an entry of another scope
RankNames == {"a", "A", "B"}
RankEntry(name, scope) ==
    McpServerEntry(name, Obj([command |-> Str("node")]), scope, TRUE, claudeGlobalPath, "")
RankLists ==
    {<<RankEntry(x, "user"), RankEntry(y, "user"), RankEntry("a", "project"), RankEntry(z, "user")>> :
        x \in RankNames, y \in RankNames, z \in RankNames}
\* the results on display: for each name none, or a result of any status
\* (of one status of each priority for the third name)
RankResults ==
    {[k \in {cacheKey(RankEntry(n, "user")) : n \in {m \in RankNames : f[m] # "none"}} |->
         makeResult(f[k[1]], 1)] :
        f \in {g \in [RankNames -> {HealthStatus[x] : x \in DOMAIN HealthStatus} \cup {"none"}] :
                  g["B"] \in {"none", HealthStatus.Healthy, HealthStatus.Checking,
                              HealthStatus.Error}}}

InitRank ==
    /\ now = 0
    /\ got = <<>>
    /\ healthResults \in RankResults
    /\ events = 0
    /\ batch = NoBatch
    /\ toggles = EmptyMap
    /\ ranked = <<>>
    /\ fs = NoFiles
    /\ workspaceRoot = Root
    /\ servers \in RankLists
    /\ aggRejected = FALSE
    /\ stale = 0
    /\ last = LastOp("init", NoEntry, Toggled(fs, "ok", {}, "none"), FALSE)
    /\ pre = fs
    /\ trip = NoTrip
    /\ cache = EmptyMap
    /\ probes = EmptyMap

NextRank == \E scope \in {"user", "project"}, lowerFirst \in BOOLEAN : GetServerItems(scope, lowerFirst)

SpecRank == InitRank /\ [][NextRank]_vars

\* ------------------------------------------------- the view after toggles
\* the arrays getAllServers can return for a set of entries: the order of
\* the keys of a file is not held by the files here
Arrays(S) ==
    {list \in [1 .. Cardinality(S) -> S] : \A e \in S : \E i \in DOMAIN list : list[i] = e}

\* the change events counted in the view
MaxEvents == 3

\* McpTreeDataProvider.refresh with the Tier 1 run it starts: the array is
\* replaced, one change event is fired, and checkTier1 is called on every
\* enabled entry (autoHealthCheck is "all"); healthResults is left as it is.
\* The run of the refresh before has settled
RefreshView ==
    LET result == getAllServers(fs, workspaceRoot)
    IN /\ batch.state # "pending"
       /\ events < MaxEvents
       /\ ~result.threw
       /\ \E list \in Arrays(result.entries), onPath \in BOOLEAN :
             LET candidates == SelectSeq(list, IsEnabled)
                 calls == [i \in DOMAIN candidates |-> Tier1Started(candidates[i], onPath)]
             IN /\ servers' = list
                /\ probes' = calls
                /\ batch' = IF candidates = <<>> THEN Finished("runTier1Checks", "resolved")
                            ELSE Started("runTier1Checks", calls)
       /\ events' = events + 1
       /\ aggRejected' = FALSE
       /\ stale' = 0
       /\ last' = LastOp("getAllServers", NoEntry, Toggled(fs, "ok", {}, "none"), FALSE)
       /\ pre' = fs
       /\ trip' = NoTrip
       /\ UNCHANGED <<fs, workspaceRoot, cache, now, got, healthResults, toggles, ranked>>

\* a workspace with one user server and one project server, both stdio and
\* enabled; the view is not yet filled
InitView ==
    /\ Quiet
    /\ fs = [NoFiles EXCEPT
                !.mcpJson = ServersFile(Obj("a" :> Obj([command |-> Str("node")]))),
                !.claudeJson = ClaudeJson(Obj("b" :> Obj([command |-> Str("npx")])), Abs, Abs)]
    /\ workspaceRoot = Root
    /\ servers = <<>>
    /\ aggRejected = FALSE
    /\ stale = 0
    /\ last = LastOp("init", NoEntry, Toggled(fs, "ok", {}, "none"), FALSE)
    /\ pre = fs
    /\ trip = NoTrip
    /\ cache = EmptyMap
    /\ probes = EmptyMap

NextView ==
    \/ RefreshView
    \/ \E p \in DOMAIN probes : Tier1StdioResumes(p)
    \/ Tier1BatchRecords
    \/ \E i \in DOMAIN servers : ToggleServer(servers[i], TRUE, TRUE)
    \/ \E scope \in {"user", "project"} : GetServerItems(scope, TRUE)

SpecView == InitView /\ [][NextView]_vars

\* ------------------------------------------------------- probes on a clock
TimedEntries ==
    {McpServerEntry("a", config, "user", TRUE, claudeGlobalPath, "") :
        config \in {Obj([command |-> Str("node")]), Obj([url |-> Str("http://h")])}}

InitTimed ==
    /\ Quiet
    /\ fs = NoFiles
    /\ workspaceRoot = Root
    /\ servers \in {{e} : e \in TimedEntries}
    /\ aggRejected = FALSE
    /\ stale = 0
    /\ last = LastOp("init", NoEntry, Toggled(fs, "ok", {}, "none"), FALSE)
    /\ pre = fs
    /\ trip = NoTrip
    /\ cache \in InitCaches
    /\ probes = [p \in {1} |-> IdleProbe]

NextTimed ==
    \/ Tick(1)
    \/ \E p \in DOMAIN probes, entry \in servers : CheckTier1(p, entry, TRUE)
    \/ \E p \in DOMAIN probes : Tier1StdioResumes(p)
    \/ \E p \in DOMAIN probes, response \in {Response(200), FetchRejects} :
          FetchSettles(p, response)
    \/ \E p \in DOMAIN probes, entry \in servers : CheckTier2(p, entry)
    \/ \E p \in DOMAIN probes, all \in SettingsDocs : SettingsSettles(p, all)
    \/ \E p \in DOMAIN probes, settled \in Plain : ConnectSettles(p, settled)
    \/ \E p \in DOMAIN probes : TimerWins(p)
    \/ \E p \in DOMAIN probes : TimerLate(p)
    \/ \E p \in DOMAIN probes, settled \in Plain : LateConnect(p, settled)
    \/ \E p \in DOMAIN probes, settled \in Plain : PingSettles(p, settled)
    \/ \E p \in DOMAIN probes, tools \in {Listed(1), ListFails} : ListToolsSettles(p, tools)
    \/ \E p \in DOMAIN probes : RequestTimesOut(p)
    \/ \E p \in DOMAIN probes, closeOk \in BOOLEAN : CloseSettles(p, closeOk)

SpecTimed == InitTimed /\ [][NextTimed]_vars

\* the cache read and cleared while the clock runs and a lookup probe is made
NextCache ==
    \/ \E d \in {1, DefaultMaxAgeMs} : Tick(d)
    \/ \E p \in DOMAIN probes, entry \in servers, onPath \in BOOLEAN :
          CheckTier1(p, entry, onPath)
    \/ \E p \in DOMAIN probes : Tier1StdioResumes(p)
    \/ \E p \in DOMAIN probes, response \in {Response(200), FetchRejects} :
          FetchSettles(p, response)
    \/ \E p \in DOMAIN probes : RequestTimesOut(p)
    \/ \E entry \in servers, maxAgeMs \in {2, DefaultMaxAgeMs} : GetCachedResult(entry, maxAgeMs)
    \/ ClearCache

SpecCache == InitTimed /\ [][NextCache]_vars

\* ------------------------------------------------------------------ claims
Toggle == last.op = "toggleServer"
Completed == Toggle /\ last.outcome = "ok"
ListOf(file) == PropList(file, "disabledMcpjsonServers").s
EnabledMapOf(file) == ObjectEntries(Prop(file, "enabledPlugins"))

\* C1: toggling a Managed entry writes no file and returns without throwing,
\* and every Managed entry of an aggregation pass is enabled, whatever the
\* other files hold
ManagedIsReadOnlyAndEnabled ==
    /\ (Toggle /\ last.entry.scope = "managed") =>
          (fs = pre /\ last.wrote = {} /\ last.outcome = "ok")
    /\ \A e \in servers \cup getAllServers(fs, workspaceRoot).entries :
          e.scope = "managed" => e.enabled

\* a Managed entry named in the exclusion list and in the parked map of the
\* current project was toggled
ManagedToggled ==
    /\ Toggle /\ last.entry.scope = "managed"
    /\ IndexOf(ListOf(fs.settingsLocal), last.entry.name) # 0
    /\ \E e \in servers : e.name = last.entry.name /\ e.scope = "local" /\ ~e.enabled

\* the dispatch order of the specification: first match wins
FirstMatch(entry) ==
    IF entry.scope = "managed" THEN "reject"
    ELSE IF entry.pluginId # "" THEN "C"
    ELSE IF entry.scope = "project" THEN "B"
    ELSE "A"
StrategyFiles(strategy) ==
    IF strategy = "A" THEN {"claudeJson"}
    ELSE IF strategy = "B" THEN {"settingsLocal"}
    ELSE IF strategy = "C" THEN {"claudeSettings"}
    ELSE {}

\* C2: a toggle dispatches to the first matching strategy, writes at most one
\* file, the file of that strategy, and a plugin entry of scope User or
\* Local leaves the per-user store alone
DispatchFirstMatch ==
    Toggle =>
       /\ last.strategy = FirstMatch(last.entry)
       /\ Cardinality(last.wrote) <= 1
       /\ last.wrote \subseteq StrategyFiles(FirstMatch(last.entry))
       /\ \A file \in FileNames \ last.wrote : fs[file] = pre[file]
       /\ (last.entry.pluginId # "" /\ last.entry.scope \in {"user", "local"}) =>
             fs.claudeJson = pre.claudeJson

\* a plugin entry of scope User, whose name is also a server of the
\* per-user store, was toggled through the settings file
PluginEntryDispatched ==
    /\ Toggle /\ last.entry.pluginId # "" /\ last.entry.scope = "user"
    /\ last.wrote = {"claudeSettings"}
    /\ last.entry.name \in DOMAIN ObjectEntries(Prop(fs.claudeJson, "mcpServers"))

\* C3: after a completed toggle of a non-Managed entry of a fresh aggregation
\* pass, the next pass holds the same entry with enabled negated
ToggleFlipsEntry ==
    (Completed /\ last.fresh /\ last.entry.scope # "managed") =>
       LET next == getAllServers(fs, workspaceRoot)
       IN /\ ~next.threw
          /\ \E e \in next.entries :
                /\ e.name = last.entry.name
                /\ e.scope = last.entry.scope
                /\ e.pluginId = last.entry.pluginId
                /\ e.config = last.entry.config
                /\ e.enabled = ~last.entry.enabled

\* the keys and values of the per-user store: the servers of the two maps at
\* the top level and in every project block, and every other key
BlockContent(block) ==
    [mcpServers |-> ObjectEntries(block.mcpServers),
     disabled_mcpServers |-> ObjectEntries(block.disabled_mcpServers),
     other |-> block.other]
StoreContent(file) ==
    LET projects == ObjectEntries(Prop(file, "projects"))
    IN [top |-> BlockContent(TopBlock(file)),
        projects |-> [path \in DOMAIN projects |-> BlockContent(projects[path])]]

\* C4: disabling an enabled User or LocalPerProject entry, refreshing and
\* re-enabling the entry restores the per-user store: the same server names
\* with the same configs in every map, no key lost or added
RoundTripRestoresStore == trip.phase = 3 => StoreContent(fs.claudeJson) = StoreContent(trip.origin)

\* the active/parked pair an entry of the given scope lives in
BlockAt(file, scope) ==
    IF scope = "user" THEN TopBlock(file)
    ELSE LET projects == ObjectEntries(Prop(file, "projects"))
         IN IF workspaceRoot \in DOMAIN projects THEN projects[workspaceRoot] ELSE EmptyBlock
ActiveOf(block) == ObjectEntries(block.mcpServers)
ParkedOf(block) == ObjectEntries(block.disabled_mcpServers)

SameAt(v0, v1, n) ==
    LET m0 == ObjectEntries(v0)
        m1 == ObjectEntries(v1)
    IN /\ n \in DOMAIN m0 <=> n \in DOMAIN m1
       /\ n \in DOMAIN m0 => m0[n] = m1[n]

\* C6: a Strategy A write changes only the pair of the entry's own block and,
\* in it, only the entry's name: other top-level keys, other projects' blocks
\* and other server names are as they were when the toggle read the file
StrategyAFrame ==
    (Toggle /\ last.strategy = "A" /\ "claudeJson" \in last.wrote) =>
       LET e == last.entry
           f0 == pre.claudeJson
           f1 == fs.claudeJson
           b0 == BlockAt(f0, e.scope)
           b1 == BlockAt(f1, e.scope)
           p0 == ObjectEntries(Prop(f0, "projects"))
           p1 == ObjectEntries(Prop(f1, "projects"))
       IN /\ f1.other = f0.other
          /\ e.scope = "user" => f1.projects = f0.projects
          /\ e.scope = "local" =>
                /\ f1.mcpServers = f0.mcpServers
                /\ f1.disabled_mcpServers = f0.disabled_mcpServers
                /\ \A path \in (DOMAIN p0 \cup DOMAIN p1) \ {workspaceRoot} :
                      path \in DOMAIN p0 /\ path \in DOMAIN p1 /\ p0[path] = p1[path]
          /\ b1.other = b0.other
          /\ \A n \in Names \ {e.name} :
                /\ SameAt(b0.mcpServers, b1.mcpServers, n)
                /\ SameAt(b0.disabled_mcpServers, b1.disabled_mcpServers, n)

\* a LocalPerProject entry was moved in a store that also holds top-level
\* servers, another project's block and another server in the same pair
LocalToggledAmongOthers ==
    /\ Completed /\ last.strategy = "A" /\ last.entry.scope = "local"
    /\ fs.claudeJson # pre.claudeJson
    /\ OtherProject \in DOMAIN ObjectEntries(fs.claudeJson.projects)
    /\ DOMAIN ObjectEntries(fs.claudeJson.mcpServers) # {}
    /\ \E n \in Names \ {last.entry.name} :
          n \in DOMAIN ActiveOf(BlockAt(fs.claudeJson, "local"))
                \cup DOMAIN ParkedOf(BlockAt(fs.claudeJson, "local"))

NoDuplicates(s) == \A i, j \in DOMAIN s : s[i] = s[j] => i = j

\* C7: Strategy B leaves the exclusion list unchanged when it disables an
\* entry already named in it, and never adds a duplicate to a list that has
\* none
ExclusionListIdempotent ==
    (Toggle /\ last.strategy = "B") =>
       /\ (last.entry.enabled /\ IndexOf(ListOf(pre.settingsLocal), last.entry.name) # 0) =>
             fs.settingsLocal = pre.settingsLocal
       /\ NoDuplicates(ListOf(pre.settingsLocal)) => NoDuplicates(ListOf(fs.settingsLocal))

\* an entry shown as enabled was disabled while its name was in the list
DisabledTwice ==
    /\ Completed /\ last.strategy = "B" /\ last.wrote = {"settingsLocal"}
    /\ last.entry.enabled
    /\ IndexOf(ListOf(pre.settingsLocal), last.entry.name) # 0

ReadOnlyFiles == {"mcpJson", "managed", "installedPlugins", "pluginFiles"}

\* C8: no step writes the shared project file, the managed file, the plugin
\* registry or a plugin's config file
SharedFilesNeverWritten ==
    [][/\ \A file \in ReadOnlyFiles : fs'[file] = fs[file]
       /\ last'.wrote \cap ReadOnlyFiles = {}]_vars

\* a Project entry was toggled while all the read-only files exist
ProjectEntryToggled ==
    /\ Completed /\ last.strategy = "B" /\ last.wrote = {"settingsLocal"}
    /\ fs.settingsLocal # pre.settingsLocal
    /\ \A file \in {"mcpJson", "managed", "installedPlugins"} : fs[file].st = "ok"

\* C9: Strategy C sets enabledPlugins[pluginId] to the negation of
\* entry.enabled, so every entry of that plugin is flipped in the next pass,
\* and leaves the other plugins and the other keys of the file alone
PluginToggleFlipsPlugin ==
    (Completed /\ last.strategy = "C") =>
       LET e == last.entry
           m0 == EnabledMapOf(pre.claudeSettings)
           m1 == EnabledMapOf(fs.claudeSettings)
       IN /\ e.pluginId \in DOMAIN m1 /\ m1[e.pluginId] = ~e.enabled
          /\ \A e2 \in getAllServers(fs, workspaceRoot).entries :
                e2.pluginId = e.pluginId => e2.enabled = ~e.enabled
          /\ \A q \in PluginIds \ {e.pluginId} :
                SameAt(Prop(pre.claudeSettings, "enabledPlugins"),
                       Prop(fs.claudeSettings, "enabledPlugins"), q)
          /\ fs.claudeSettings.other = pre.claudeSettings.other

\* a plugin with entries in two scopes was toggled while the map also held
\* another plugin
PluginOfTwoScopesToggled ==
    /\ Completed /\ last.strategy = "C"
    /\ \E e1, e2 \in getAllServers(fs, workspaceRoot).entries :
          /\ e1.pluginId = last.entry.pluginId /\ e2.pluginId = last.entry.pluginId
          /\ e1.scope # e2.scope
    /\ \E q \in PluginIds \ {last.entry.pluginId} : q \in DOMAIN EnabledMapOf(fs.claudeSettings)
    /\ fs.claudeSettings.other = "x"

\* what a source contributes when its read fails: nothing
Contribution(result) == IF result.threw THEN {} ELSE result.entries

\* C10: getAllServers never rejects, whatever state the five sources are in;
\* a failing source contributes no entry and the entries of the other
\* sources are returned
AggregationNeverRejects ==
    last.op = "getAllServers" =>
       /\ last.outcome = "ok"
       /\ ~aggRejected
       /\ servers = Contribution(readProjectServers(fs, workspaceRoot))
                    \cup Contribution(readUserServers(fs))
                    \cup Contribution(readLocalServers(fs, workspaceRoot))
                    \cup Contribution(readManagedServers(fs))
                    \cup Contribution(readPluginServers(fs, workspaceRoot))

\* the registry without its corrupted installation entries
SoundInstallations(raw) ==
    Many(SelectSeq(NormalizeInstallations(raw), LAMBDA inst : inst.ok))
WithoutCorruptInstallations(f) ==
    IF f.installedPlugins.st # "ok" \/ f.installedPlugins.plugins.k # "obj" THEN f
    ELSE LET reg == f.installedPlugins.plugins.m
         IN [f EXCEPT !.installedPlugins.plugins =
                Obj([pid \in DOMAIN reg |-> SoundInstallations(reg[pid])])]

\* C11: a corrupted installation entry of the registry changes nothing to
\* what the other installations (of the same plugin or of another one,
\* listed before or after it) and the four non-plugin sources contribute:
\* the pass returns what it returns on the registry without that entry
CorruptInstallationIsolated ==
    (last.op = "getAllServers" /\ last.outcome = "ok") =>
        servers = getAllServers(WithoutCorruptInstallations(fs), workspaceRoot).entries

\* the installations the registry lists for each plugin
RegistryOf(f) == ObjectEntries(Prop(f.installedPlugins, "plugins"))
InstallationsOf(f, pid) == NormalizeInstallations(RegistryOf(f)[pid])
ConfigPathOf(inst) == pluginMcpConfigPath(ResolveInstallPath(inst.installPath))
\* the config file of an installation is absent, unreadable or names no server
WithoutServers(f, inst) ==
    LET file == PluginFileAt(f, ConfigPathOf(inst))
    IN file.st # "ok" \/ DOMAIN PluginServersOf(file) = {}
\* installation j of the plugin is one the pass reads, it has servers, and no
\* installation listed before it has servers at the same resolved scope
FirstOfItsScope(f, root, insts, j) ==
    /\ \A i \in 1..j : insts[i].ok
    /\ ~ProjectFilterSkips(insts[j], root)
    /\ ~WithoutServers(f, insts[j])
    /\ \A i \in 1..(j - 1) :
          \/ ProjectFilterSkips(insts[i], root)
          \/ WithoutServers(f, insts[i])
          \/ ResolvedScope(insts[i], root) # ResolvedScope(insts[j], root)

\* C12: after an aggregation pass the plugin entries of one (pluginId, scope)
\* all come from one installation's config file; no entry comes from a config
\* file that is absent or names no server; and an installation without
\* servers does not take the slot: the first installation with servers at a
\* scope contributes all its servers
PluginOncePerScope ==
    (last.op = "getAllServers" /\ last.outcome = "ok") =>
       /\ \A e1, e2 \in servers :
             (e1.pluginId # "" /\ e1.pluginId = e2.pluginId /\ e1.scope = e2.scope)
                => e1.configFilePath = e2.configFilePath
       /\ \A e \in servers :
             e.pluginId # "" =>
                LET file == PluginFileAt(fs, e.configFilePath)
                IN file.st = "ok" /\ e.name \in DOMAIN PluginServersOf(file)
       /\ \A pid \in DOMAIN RegistryOf(fs) :
             \A j \in DOMAIN InstallationsOf(fs, pid) :
                LET insts == InstallationsOf(fs, pid)
                    file == PluginFileAt(fs, ConfigPathOf(insts[j]))
                IN FirstOfItsScope(fs, workspaceRoot, insts, j) =>
                      \A n \in DOMAIN PluginServersOf(file) :
                         \E e \in servers :
                            /\ e.pluginId = pid /\ e.name = n
                            /\ e.scope = ResolvedScope(insts[j], workspaceRoot)
                            /\ e.configFilePath = ConfigPathOf(insts[j])

\* a pass over a plugin listed three times at one scope: the first
\* installation has no config file, the second contributed, the third, which
\* has servers too, did not
SlotTakenBySecondInstallation ==
    /\ last.op = "getAllServers" /\ last.outcome = "ok"
    /\ \E pid \in DOMAIN RegistryOf(fs) :
          LET insts == InstallationsOf(fs, pid)
          IN /\ Len(insts) = 3
             /\ WithoutServers(fs, insts[1])
             /\ ~WithoutServers(fs, insts[2]) /\ ~WithoutServers(fs, insts[3])
             /\ \E e \in servers : e.pluginId = pid /\ e.configFilePath = ConfigPathOf(insts[2])
             /\ ~\E e \in servers : e.pluginId = pid /\ e.configFilePath = ConfigPathOf(insts[3])

\* the directory names of a path, from the top: the path split at "/"
RECURSIVE Components(_, _, _)
Components(path, i, name) ==
    IF i > Len(path) THEN (IF name = <<>> THEN <<>> ELSE <<name>>)
    ELSE IF path[i] = "/"
         THEN (IF name = <<>> THEN <<>> ELSE <<name>>) \o Components(path, i + 1, <<>>)
         ELSE Components(path, i + 1, Append(name, path[i]))
DirsOf(path) == Components(path, 1, <<>>)
\* anchor names a directory strictly above the directory project
StrictAncestor(anchor, project) ==
    /\ anchor # NoRoot /\ project # NoRoot
    /\ Len(DirsOf(anchor)) < Len(DirsOf(project))
    /\ SubSeq(DirsOf(project), 1, Len(DirsOf(anchor))) = DirsOf(anchor)

\* the installation accounts for the entry under the scope rule
Accounts(inst, e, root) ==
    /\ inst.ok /\ ConfigPathOf(inst) = e.configFilePath
    /\ \/ inst.scope = "global" /\ e.scope = "user"
       \/ /\ inst.scope = "project" /\ root # NoRoot /\ inst.projectPath = root
          /\ e.scope = "local"
       \/ /\ inst.scope = "project" /\ StrictAncestor(inst.projectPath, root)
          /\ e.scope = "user"

\* C13: every plugin entry of an aggregation pass comes from an installation
\* that is global, with scope User, or scoped to the project and anchored at
\* the current project path, with scope LocalPerProject, or scoped to the
\* project and anchored at a strict ancestor of it, with scope User
PluginScopeFollowsAnchor ==
    (last.op = "getAllServers" /\ last.outcome = "ok") =>
        \A e \in servers :
           e.pluginId # "" =>
              /\ e.pluginId \in DOMAIN RegistryOf(fs)
              /\ \E j \in DOMAIN InstallationsOf(fs, e.pluginId) :
                    Accounts(InstallationsOf(fs, e.pluginId)[j], e, workspaceRoot)

\* a pass in which one plugin contributed from an installation anchored at
\* the project, as LocalPerProject, and from one anchored above it, as User
AnchoredAtAndAboveProject ==
    /\ last.op = "getAllServers" /\ last.outcome = "ok"
    /\ \E pid \in DOMAIN RegistryOf(fs) :
          LET insts == InstallationsOf(fs, pid)
          IN \E i, j \in DOMAIN insts :
                /\ insts[i].ok /\ insts[i].scope = "project"
                /\ insts[i].projectPath = workspaceRoot
                /\ insts[j].ok /\ insts[j].scope = "project"
                /\ StrictAncestor(insts[j].projectPath, workspaceRoot)
                /\ \E e \in servers : /\ e.pluginId = pid /\ e.scope = "local"
                                      /\ e.configFilePath = ConfigPathOf(insts[i])
                /\ \E e \in servers : /\ e.pluginId = pid /\ e.scope = "user"
                                      /\ e.configFilePath = ConfigPathOf(insts[j])

\* ------------------------------------------------------ claims on the probes
Called(p) == probes[p].pc # "idle"
Done(p) == probes[p].pc = "done"
Ops(call) == {call.log[i] : i \in DOMAIN call.log}
Times(call, op) == Cardinality({i \in DOMAIN call.log : call.log[i] = op})
ProbeIO == {"which", "fetch", "connect", "ping", "listTools", "close"}

\* C14: a probe of either tier on a disabled entry has returned Unknown,
\* tagged with the tier called, as soon as it is called, and has performed
\* no lookup, fetch, connect, ping, listTools or close
DisabledShortCircuits ==
    \A p \in DOMAIN probes :
       (Called(p) /\ ~probes[p].entry.enabled) =>
          /\ Done(p) /\ probes[p].outcome = "resolved"
          /\ probes[p].result.status = HealthStatus.Unknown
          /\ probes[p].result.tier = probes[p].tier
          /\ Ops(probes[p]) \cap ProbeIO = {}

\* checkTier2 was called on a disabled process-launch entry
DisabledProbedDeep ==
    \E p \in DOMAIN probes :
       /\ Done(p) /\ probes[p].tier = 2 /\ ~probes[p].entry.enabled
       /\ ~InThrows(probes[p].entry.config) /\ isStdioConfig(probes[p].entry.config)

\* C15: no call of checkTier1 or checkTier2 rejects: whatever the entry and
\* whatever fails, the call is pending or has resolved with a result
ProbesNeverReject ==
    \A p \in DOMAIN probes :
       /\ probes[p].outcome # "rejected"
       /\ Done(p) => probes[p].result.status \in {HealthStatus[x] : x \in DOMAIN HealthStatus}

\* an enabled entry with a network-endpoint config and no command
HttpProbe(p, tier) ==
    /\ Done(p) /\ probes[p].tier = tier /\ probes[p].entry.enabled
    /\ ~InThrows(probes[p].entry.config)
    /\ isHttpConfig(probes[p].entry.config) /\ ~isStdioConfig(probes[p].entry.config)

\* C16: a Tier-1 probe of an enabled network-endpoint entry has sent its
\* request and returns AuthFailed on a response with status 401 or 403,
\* Reachable on a response with any other status, Unreachable when the
\* request threw, and nothing else
Tier1HttpOutcomes ==
    \A p \in DOMAIN probes :
       HttpProbe(p, 1) =>
          /\ probes[p].outcome = "resolved"
          /\ "fetch" \in DOMAIN probes[p].io
          /\ LET response == probes[p].io["fetch"]
                 status == probes[p].result.status
             IN /\ response.threw => status = HealthStatus.Unreachable
                /\ (~response.threw /\ response.status \in {401, 403})
                      => status = HealthStatus.AuthFailed
                /\ (~response.threw /\ response.status \notin {401, 403})
                      => status = HealthStatus.Reachable
                /\ status \in {HealthStatus.AuthFailed, HealthStatus.Reachable,
                               HealthStatus.Unreachable}
                /\ probes[p].result.tier = 1

\* the endpoint answered 500 and the probe returned Reachable
ServerErrorIsReachable ==
    \E p \in DOMAIN probes :
       /\ HttpProbe(p, 1) /\ "fetch" \in DOMAIN probes[p].io
       /\ probes[p].io["fetch"] = Response(500)
       /\ probes[p].result.status = HealthStatus.Reachable

\* an enabled entry with a process-launch config
StdioProbe(p, tier) ==
    /\ Done(p) /\ probes[p].tier = tier /\ probes[p].entry.enabled
    /\ ~InThrows(probes[p].entry.config) /\ isStdioConfig(probes[p].entry.config)

\* C17 as stated: a Tier-1 probe of an enabled process-launch entry returns
\* BinaryFound when the command resolves on the search path and
\* CommandNotFound otherwise, and nothing else
Tier1StdioTwoOutcomes ==
    \A p \in DOMAIN probes :
       StdioProbe(p, 1) =>
          /\ "which" \in DOMAIN probes[p].io
          /\ probes[p].result.status =
                IF probes[p].io["which"].found THEN HealthStatus.BinaryFound
                ELSE HealthStatus.CommandNotFound

\* C17 amended: a Tier-1 probe of an enabled process-launch entry returns
\* BinaryFound when the lookup resolves the command, CommandNotFound when the
\* lookup finds nothing, Error when the lookup itself throws, and nothing else
Tier1StdioThreeOutcomes ==
    \A p \in DOMAIN probes :
       StdioProbe(p, 1) =>
          /\ probes[p].outcome = "resolved"
          /\ "which" \in DOMAIN probes[p].io
          /\ probes[p].result.tier = 1
          /\ probes[p].result.status =
                IF probes[p].io["which"].threw THEN HealthStatus.Error
                ELSE IF probes[p].io["which"].found THEN HealthStatus.BinaryFound
                ELSE HealthStatus.CommandNotFound

\* the lookup threw on a command that is not a string and the probe
\* returned Error
LookupThrew ==
    \E p \in DOMAIN probes :
       /\ StdioProbe(p, 1) /\ "which" \in DOMAIN probes[p].io
       /\ probes[p].io["which"].threw
       /\ probes[p].result.status = HealthStatus.Error

\* the class of a failure message in the documented priority order
ClassInOrder(errorMsg) ==
    IF Includes(errorMsg, "ENOENT") THEN HealthStatus.CommandNotFound
    ELSE IF Includes(errorMsg, "ECONNREFUSED") \/ Includes(errorMsg, "fetch failed")
    THEN HealthStatus.Unreachable
    ELSE IF \/ Includes(errorMsg, "401") \/ Includes(errorMsg, "403")
            \/ Includes(errorMsg, "Unauthorized")
    THEN HealthStatus.AuthFailed
    ELSE HealthStatus.Error

\* the connect or the ping of a Tier-2 probe failed with message errorMsg
FailedWith(p, errorMsg) ==
    /\ probes[p].tier = 2 /\ probes[p].pc \in {"closing", "done"}
    /\ \E op \in {"connect", "ping"} :
          /\ op \in DOMAIN probes[p].io
          /\ ~probes[p].io[op].ok /\ probes[p].io[op].msg = errorMsg

\* C18: a Tier-2 failure is given the first class its message indicates, in
\* the order missing executable (CommandNotFound), connection refused or
\* fetch failure (Unreachable), 401 / 403 / Unauthorized (AuthFailed), and
\* Error when it indicates none
FailureClassPriority ==
    \A p \in DOMAIN probes : \A errorMsg \in Messages \cup {TimedOut.msg} :
       FailedWith(p, errorMsg) =>
          /\ probes[p].result.status = ClassInOrder(errorMsg)
          /\ probes[p].result.error = errorMsg

\* op has settled successfully in the call
Succeeded(call, op) == op \in DOMAIN call.io /\ call.io[op].ok
\* the Tier-2 probe has built its result
Built(p) == probes[p].tier = 2 /\ probes[p].pc \in {"closing", "done"}

\* C19: a Tier-2 probe whose connect and ping succeeded returns Healthy
\* whatever listTools did, with toolCount the number of tools listed when
\* listTools succeeded and omitted when it failed; and a Tier-2 probe returns
\* Healthy only when its connect and its ping succeeded
HealthyIffConnectedAndPinged ==
    \A p \in DOMAIN probes :
       Built(p) =>
          /\ (Succeeded(probes[p], "connect") /\ Succeeded(probes[p], "ping")) =>
                /\ probes[p].result.status = HealthStatus.Healthy
                /\ "listTools" \in DOMAIN probes[p].io
                /\ probes[p].result.toolCount =
                      IF probes[p].io["listTools"].ok
                      THEN Count(probes[p].io["listTools"].n)
                      ELSE Omitted
                /\ Done(p) => probes[p].outcome = "resolved"
          /\ probes[p].result.status = HealthStatus.Healthy =>
                Succeeded(probes[p], "connect") /\ Succeeded(probes[p], "ping")

\* connect and ping succeeded, listTools failed, and the probe returned
\* Healthy without a toolCount
HealthyWithoutToolCount ==
    \E p \in DOMAIN probes :
       /\ Done(p) /\ probes[p].tier = 2
       /\ Succeeded(probes[p], "connect") /\ Succeeded(probes[p], "ping")
       /\ "listTools" \in DOMAIN probes[p].io /\ ~probes[p].io["listTools"].ok
       /\ probes[p].result.status = HealthStatus.Healthy
       /\ probes[p].result.toolCount = Omitted

CreatedClient(call) == "new Client" \in Ops(call)

\* close is called at most once, only on a client that was created, and a
\* call that created a client has closed it, as its last operation, when it
\* returns
ClosedBeforeReturn ==
    \A p \in DOMAIN probes :
       /\ Times(probes[p], "close") <= 1
       /\ Times(probes[p], "close") = 1 => CreatedClient(probes[p])
       /\ (Done(p) /\ probes[p].tier = 2 /\ CreatedClient(probes[p])) =>
             /\ Times(probes[p], "close") = 1
             /\ probes[p].log[Len(probes[p].log)] = "close"
             /\ "close" \in DOMAIN probes[p].io
             /\ probes[p].outcome = "resolved"
\* the step in which close settles, whether it resolved or threw, returns
\* the result built before it and leaves the cache as it was
CloseKeepsResult ==
    \A p \in DOMAIN probes :
       (probes[p].pc = "closing" /\ probes'[p].pc = "done") =>
          /\ probes'[p].outcome = "resolved"
          /\ probes'[p].result = probes[p].result
          /\ cache' = cache

\* C20: every checkTier2 call that creates a client calls close on it
\* exactly once before it returns, on every exit path, and a close that
\* throws changes neither the result returned nor the cache
ClientClosedOnce == []ClosedBeforeReturn /\ [][CloseKeepsResult]_vars

\* a probe returned Healthy and left its result in the cache although its
\* close threw
CloseThrewAfterHealthy ==
    \E p \in DOMAIN probes :
       /\ Done(p) /\ probes[p].tier = 2 /\ CreatedClient(probes[p])
       /\ "close" \in DOMAIN probes[p].io /\ ~probes[p].io["close"]
       /\ probes[p].result.status = HealthStatus.Healthy
       /\ cacheKey(probes[p].entry) \in DOMAIN cache
       /\ cache[cacheKey(probes[p].entry)] = probes[p].result

\* ------------------------------------------------------- claims on the clock
\* when the timer armed by the call is due: the configured timeout after the
\* race began
ConnectDeadline(call) == call.raceAt + get(call.io["get"], "healthCheckTimeoutMs")
LostToTimer(call) == "connect" \in DOMAIN call.io /\ call.io["connect"] = TimedOut

TimeoutBoundsConnect ==
    \A p \in DOMAIN probes :
       probes[p].raceAt # NoTimer =>
          /\ probes[p].pc = "connecting" => now <= ConnectDeadline(probes[p])
          /\ LostToTimer(probes[p]) =>
                /\ probes[p].pc \in {"closing", "done"}
                /\ Done(p) => probes[p].outcome = "resolved"
                /\ probes[p].result.status = HealthStatus.Error
                /\ probes[p].result.tier = 2
                /\ Includes(probes[p].result.error, "timed out")
                /\ probes[p].result.checkedAt = ConnectDeadline(probes[p])

LoserHasNoEffect ==
    \A p \in DOMAIN probes :
       /\ (probes[p].pc = "connecting" /\ LostToTimer(probes'[p])) =>
             cache'[cacheKey(probes[p].entry)] = probes'[p].result
       /\ \/ probes[p].hung /\ ~probes'[p].hung
          \/ /\ probes[p].timer # NoTimer /\ probes'[p].timer = NoTimer
             /\ probes[p].pc # "connecting"
          => /\ probes'[p].result = probes[p].result
             /\ probes'[p].pc = probes[p].pc
             /\ probes'[p].outcome = probes[p].outcome
             /\ cache' = cache

ProbeOverwritesCache ==
    \A p \in DOMAIN probes :
       (Done(p) /\ probes[p].outcome = "resolved" /\ probes[p].entry.enabled) =>
          /\ cacheKey(probes[p].entry) \in DOMAIN cache
          /\ cache[cacheKey(probes[p].entry)] = probes[p].result
          /\ cache[cacheKey(probes[p].entry)].tier = probes[p].tier

\* a step of getCachedResult or clearCache, and any step that adds a key to
\* the cache
CacheReadsExpire ==
    /\ got' # got =>
          LET r == got'[1]
              fresh == /\ r.key \in DOMAIN cache
                       /\ now - cache[r.key].checkedAt <= r.maxAgeMs
          IN /\ (r.op = "getCachedResult" /\ fresh) =>
                   r.returned = cache[r.key] /\ cache' = cache
             /\ (r.op = "getCachedResult" /\ ~fresh) =>
                   /\ r.returned = NoResult
                   /\ cache' = Without(cache, r.key)
             /\ r.op = "clearCache" => cache' = EmptyMap
    /\ \A k \in DOMAIN cache' \ DOMAIN cache :
          \E p \in DOMAIN probes : probes'[p] # probes[p] /\ probes'[p].result = cache'[k]

\* C23: getCachedResult returns the cached result while its age, the clock
\* minus checkedAt, is within the window (5 minutes unless given) and nothing
\* once it is older, and then also removes the entry; clearCache empties the
\* cache, and a key comes back only in a step in which a probe stores its
\* result
CacheExpiry == [][CacheReadsExpire]_vars

\* a read with the default window found an entry older than the window,
\* returned nothing and removed it
ExpiredEntryRemoved ==
    /\ got # <<>>
    /\ got[1].op = "getCachedResult" /\ got[1].maxAgeMs = DefaultMaxAgeMs
    /\ got[1].before # NoResult /\ got[1].returned = NoResult
    /\ got[1].key \notin DOMAIN cache

\* the identity of an entry: name and scope, and the plugin for a plugin
\* entry (pluginId is "" on a hand-authored entry)
Identity(e) == [name |-> e.name, scope |-> e.scope, pluginId |-> e.pluginId]

\* C24: two entries of the server list that differ in name, scope or plugin
\* have different cache keys
IdentityKeysDistinct ==
    \A e1 \in servers, e2 \in servers :
       Identity(e1) # Identity(e2) => cacheKey(e1) # cacheKey(e2)

\* ---------------------------------------------------- claims on the ranking
\* the priority the ranking is to give an item
RankOf(item) ==
    LET st == item.healthResult.status
    IN IF item.healthResult = NoResult THEN 2
       ELSE IF st \in {HealthStatus.Healthy, HealthStatus.BinaryFound, HealthStatus.Reachable} THEN 0
       ELSE IF st = HealthStatus.Checking THEN 1
       ELSE IF st = HealthStatus.Unknown THEN 2
       ELSE 3
Occurrences(seq, x) == Cardinality({i \in DOMAIN seq : seq[i] = x})
EntriesOf(items) == [i \in DOMAIN items |-> items[i].entry]

\* C25: the list returned for a scope group is a permutation of the group's
\* entries, each with its result on display, in ascending priority, and
\* ranking the ranked entries again returns the same list
RankedByPriority ==
    ranked # <<>> =>
       LET items == ranked[1].items
           group == FilterScope(servers, ranked[1].scope, 1)
       IN /\ Len(items) = Len(group)
          /\ \A i \in DOMAIN group :
                Occurrences(EntriesOf(items), group[i]) = Occurrences(group, group[i])
          /\ \A i \in DOMAIN items :
                items[i] = McpServerItem(items[i].entry, healthResults)
          /\ \A i \in DOMAIN items, j \in DOMAIN items :
                i < j => RankOf(items[i]) <= RankOf(items[j])
          /\ getServerItems(EntriesOf(items), healthResults, ranked[1].scope,
                            ranked[1].lowerFirst) = items

\* a group of three entries was ranked in an order other than the array's
RankedOutOfArrayOrder ==
    /\ ranked # <<>>
    /\ Len(ranked[1].items) = 3
    /\ EntriesOf(ranked[1].items) # FilterScope(servers, ranked[1].scope, 1)
    /\ RankOf(ranked[1].items[1]) < RankOf(ranked[1].items[2])
    /\ RankOf(ranked[1].items[2]) < RankOf(ranked[1].items[3])

Recorded == {p \in DOMAIN batch.recorded : batch.recorded[p]}

\* the state of a deepCheckAll call: one event for the marking and one for
\* each result on display; it has resolved only with every call returned
\* and its result on display
DeepCheckAllCounts ==
    batch.kind = "deepCheckAll" =>
       /\ events = 1 + Cardinality(Recorded)
       /\ \A p \in Recorded : Done(p) /\ probes[p].outcome = "resolved"
       /\ batch.state = "resolved" => Recorded = DOMAIN probes

\* the steps of a deepCheckAll call: the step that starts it, and every
\* later step that changes the display or fires an event
DeepCheckAllSteps ==
    /\ (batch.kind = "none" /\ batch'.kind = "deepCheckAll") =>
          LET enabled == SelectSeq(servers, IsEnabled)
          IN /\ DOMAIN probes' = DOMAIN enabled
             /\ \A i \in DOMAIN enabled :
                   /\ probes'[i].entry = enabled[i] /\ probes'[i].tier = 2
                   /\ probes'[i].log = <<"get">> /\ probes'[i].pc = "settings"
                   /\ healthResults'[cacheKey(enabled[i])].status = HealthStatus.Checking
             /\ DOMAIN healthResults' = DOMAIN healthResults \cup KeysOf(enabled)
             /\ \A k \in DOMAIN healthResults \ KeysOf(enabled) :
                   healthResults'[k] = healthResults[k]
             /\ events' = events + 1
    /\ (batch.kind = "deepCheckAll" /\ (healthResults' # healthResults \/ events' # events)) =>
          \E p \in DOMAIN probes :
             /\ Done(p) /\ probes[p].outcome = "resolved"
             /\ ~batch.recorded[p] /\ batch'.recorded[p]
             /\ healthResults' = With(healthResults, cacheKey(probes[p].entry), probes[p].result)
             /\ events' = events + 1

\* C27: deepCheckAll calls checkTier2 on exactly the enabled entries of the
\* server list, all of them before it awaits any; in that step it marks each
\* of them Checking and fires one change event; afterwards the display
\* changes only by the result of a call that has returned being stored under
\* its entry's key, with one change event each; it resolves only when every
\* call has returned and its result is on display
DeepCheckAllProgressive == []DeepCheckAllCounts /\ [][DeepCheckAllSteps]_vars

\* the result of one entry is on display while the call for the other entry
\* is still in flight and that entry still shows Checking
ResultShownWhileSiblingRuns ==
    /\ batch.kind = "deepCheckAll"
    /\ \E p \in DOMAIN probes, q \in DOMAIN probes :
          /\ batch.recorded[p] /\ ~Done(q)
          /\ healthResults[cacheKey(probes[p].entry)] = probes[p].result
          /\ healthResults[cacheKey(probes[q].entry)].status = HealthStatus.Checking

\* every timeout of the call has elapsed: the connect timeout, then the
\* timeouts of ping and listTools; the fetch of a Tier-1 call is bounded by
\* its own timeout
OutOfTime(call) ==
    \/ /\ call.raceAt # NoTimer
       /\ now > ConnectDeadline(call) + TIER2_PING_TIMEOUT_MS + TIER2_PING_TIMEOUT_MS
    \/ call.pc = "fetching" /\ now > call.due

\* C28: in a batch, a call whose timeouts have all elapsed has returned,
\* whatever operation of it does not complete, so that the batch is not kept
\* waiting by it
StuckProbeTimesOut ==
    \A p \in DOMAIN probes : OutOfTime(probes[p]) => Done(p)

\* --------------------------------------------------- claims on the writes
\* what the last toggle does on a disk that takes every write
OnSoundDisk(strictMode) == toggleServer(pre, workspaceRoot, last.entry, TRUE, strictMode)

\* C29: a toggleServer call that has completed normally has made every write
\* it attempts: the files are those a call on a disk that takes every write
\* leaves; a call whose mkdir or writeFile fails has rejected
FailedWriteRejects ==
    (Toggle /\ Completed) =>
       \E strictMode \in BOOLEAN :
          /\ OnSoundDisk(strictMode).outcome = "ok"
          /\ fs = OnSoundDisk(strictMode).fs
          /\ last.wrote = OnSoundDisk(strictMode).wrote

\* a toggle of the given strategy that writes a changed file on a sound
\* disk has rejected and left the files alone
WriteFailedAndRejected(strategy) ==
    /\ Toggle /\ ~Completed /\ last.strategy = strategy /\ fs = pre
    /\ \A strictMode \in BOOLEAN :
          /\ OnSoundDisk(strictMode).outcome = "ok"
          /\ OnSoundDisk(strictMode).fs # pre
ToggleRejectedOnFailedWrite == WriteFailedAndRejected("A")

\* ------------------------------------------------- claims on toggles in flight
\* the files after the two calls made one after the other, i first
OneAfterTheOther(i, j) ==
    LET first == toggleServer(pre, workspaceRoot, toggles[i].entry, toggles[i].writeOk,
                              toggles[i].strictMode)
    IN toggleServer(first.fs, workspaceRoot, toggles[j].entry, toggles[j].writeOk,
                    toggles[j].strictMode).fs

\* C30: when two toggles that dispatch to different strategies have both
\* returned, however their reads and writes were interleaved, the files are
\* those the two calls leave when made one after the other, in either order
DifferentStrategiesCommute ==
    (/\ toggles[1].pc = "done" /\ toggles[2].pc = "done"
     /\ FirstMatch(toggles[1].entry) # FirstMatch(toggles[2].entry)) =>
       /\ fs = OneAfterTheOther(1, 2)
       /\ fs = OneAfterTheOther(2, 1)

\* a Strategy A toggle and a Strategy C toggle both read before either wrote,
\* and both changed their file
ReadsBeforeWrites ==
    /\ toggles[1].pc = "done" /\ toggles[2].pc = "done"
    /\ {FirstMatch(toggles[1].entry), FirstMatch(toggles[2].entry)} = {"A", "C"}
    /\ toggles[1].snap = pre /\ toggles[2].snap = pre
    /\ fs.claudeJson # pre.claudeJson /\ fs.claudeSettings # pre.claudeSettings

\* ------------------------------------------------- claims on the settings
\* the keys of two maps other than one key
OtherKeys(before, after, key) == ((DOMAIN before) \cup (DOMAIN after)) \ {key}
SameOtherKeys(before, after, key) ==
    \A k \in OtherKeys(before, after, key) :
        k \in DOMAIN before /\ k \in DOMAIN after /\ before[k] = after[k]

PingFailureIsDegraded ==
    \A p \in DOMAIN probes :
       (/\ Built(p) /\ Succeeded(probes[p], "connect")
        /\ "ping" \in DOMAIN probes[p].io /\ ~probes[p].io["ping"].ok) =>
          probes[p].result.status = HealthStatus.Degraded

\* ------------------------------------------------ claims on damaged files
\* C33: a toggle leaves a file that exists but cannot be read or parsed as
\* it is: the file is not overwritten, every key it held is still there
UnreadableFileKept ==
    last.op = "toggleServer" =>
       \A file \in FileNames \ {"pluginFiles"} :
          pre[file].st = "corrupt" => fs[file] = pre[file]

\* ------------------------------------------- claims on configs of a block
\* the config objects a block holds in its two maps
ConfigsOf(block) ==
    {ActiveOf(block)[n] : n \in DOMAIN ActiveOf(block)}
    \cup {ParkedOf(block)[n] : n \in DOMAIN ParkedOf(block)}

\* C34: a Strategy A toggle loses no server config: every config object
\* that was in the active or the parked map of a block is in one of the two
\* maps of that block afterwards, also when a name is in both maps
StrategyAKeepsConfigs ==
    (last.op = "toggleServer" /\ last.strategy = "A") =>
       \A scope \in {"user", "local"} :
          ConfigsOf(BlockAt(pre.claudeJson, scope)) \subseteq
             ConfigsOf(BlockAt(fs.claudeJson, scope))

\* --------------------------------------------- claims on the entries listed
\* C35: the entries one aggregation pass returns have pairwise different
\* identities (name, scope, pluginId)
IdentitiesUnique ==
    \A e1 \in servers, e2 \in servers : Identity(e1) = Identity(e2) => e1 = e2

\* ------------------------------------------ claims on toggles of one file
\* both calls have returned normally, for different entries that dispatch
\* to the same strategy
SameFileToggles ==
    /\ toggles[1].pc = "done" /\ toggles[2].pc = "done"
    /\ toggles[1].outcome = "ok" /\ toggles[2].outcome = "ok"
    /\ Identity(toggles[1].entry) # Identity(toggles[2].entry)
    /\ FirstMatch(toggles[1].entry) = FirstMatch(toggles[2].entry)
    /\ FirstMatch(toggles[1].entry) \in {"A", "B", "C"}

\* C36: when two toggles of different entries of the same file have both
\* completed, the file holds both mutations: it is the file the two calls
\* leave when made one after the other
BothMutationsPresent ==
    SameFileToggles => (fs = OneAfterTheOther(1, 2) \/ fs = OneAfterTheOther(2, 1))

\* ------------------------------------------- claims on a repeated toggle
\* toggleServer is applied to the entry snapshot it was last applied to,
\* with no aggregation pass in between, and both calls return normally
SameSnapshotAgain ==
    /\ last.op = "toggleServer" /\ last.outcome = "ok"
    /\ last'.op = "toggleServer" /\ last'.outcome = "ok"
    /\ last'.entry = last.entry

\* C37: the second of two toggles of the same entry snapshot changes no file
SecondToggleChangesNothing == SameSnapshotAgain => fs' = fs
RepeatedToggleIsIdempotent == [][SecondToggleChangesNothing]_vars

\* ---------------------------------------------- claims on overlapping checks
\* no step replaces the result on display for a key by one checked earlier
DisplayNotOlder ==
    \A k \in DOMAIN healthResults :
       k \in DOMAIN healthResults' /\ healthResults'[k].checkedAt >= healthResults[k].checkedAt

\* C38: the result on display for an identity is never replaced by an older
\* one: its checkedAt never decreases
DisplayNeverOlder == [][DisplayNotOlder]_vars

\* a Tier-2 call of deepCheckAll or deepCheckServer that has not completed:
\* checkTier2 has not settled, or it has resolved and the caller has yet to
\* store its result
InFlight(p) ==
    /\ probes[p].tier = 2
    /\ probes[p].outcome # "rejected"
    /\ IF p \in Members THEN ~batch.recorded[p] ELSE probes[p].pc # "returned"

\* C39: an identity shows Checking only while a Tier-2 probe of that
\* identity is in flight; with every started probe completed no identity is
\* left in Checking
CheckingOnlyInFlight ==
    \A k \in DOMAIN healthResults :
       healthResults[k].status = HealthStatus.Checking =>
          \E p \in DOMAIN probes : cacheKey(probes[p].entry) = k /\ InFlight(p)

\* C40: after an entry has been disabled by a toggle and the view refreshed,
\* the entry is ranked with priority 2, like an entry that was never probed,
\* whatever health result was recorded for it while it was enabled (every
\* entry of the view starts enabled, so a disabled item was disabled by a
\* toggle and listed by a refresh)
DisabledRankedAsUnprobed ==
    \A r \in DOMAIN ranked : \A i \in DOMAIN ranked[r].items :
        ~ranked[r].items[i].entry.enabled
            => RankOf(ranked[r].items[i]) = HEALTH_SORT_PRIORITY_DEFAULT

====
